---- MODULE Spec2Model ----
(***************************************************************************)
(* Model of the chat router of the HR assistant: session state, the       *)
(* pagination sub-protocol, intent dispatch, and the SQL safety pipeline   *)
(* (generation gate, execution through the read-only pool, enrichment     *)
(* lookups, answer formatting).                                            *)
(*                                                                         *)
(* Text is modelled as a sequence of lexemes (strings).  SQL text is       *)
(* case-normalised: every regular expression the code applies to SQL is    *)
(* case-insensitive, so a lexeme stands for all its spellings.  White      *)
(* space between two lexemes is implicit; the lexeme " " stands for white  *)
(* space at the start or the end of a text, where trim() matters.          *)
(***************************************************************************)
EXTENDS Integers, Sequences, FiniteSets, TLC

----------------------------------------------------------------------------
(* Bounds of the model *)

\* largest number that may appear in a LIMIT/OFFSET clause
MaxNum == 150

\* number of requests the environment issues
MaxRequests == 3

\* number of collaborator failures (a completion call that throws, a query
\* that fails or times out) the environment injects
MaxFaults == 1

----------------------------------------------------------------------------
(* Generic helpers on sequences *)

Max(a, b) == IF a >= b THEN a ELSE b

Last(s) == s[Len(s)]

Front(s) == SubSeq(s, 1, Len(s) - 1)

Contains(s, x) == \E i \in 1..Len(s) : s[i] = x

\* s with the slice from..to replaced by r
Splice(s, from, to, r) == SubSeq(s, 1, from - 1) \o r \o SubSeq(s, to + 1, Len(s))

----------------------------------------------------------------------------
(* Numbers inside text: the decimal lexeme of n and back *)

NumTok(n) == ToString(n)

DigitTokens == { NumTok(n) : n \in 0..MaxNum }

\* \d+ : the lexeme is a decimal number
IsNumber(tok) == tok \in DigitTokens

ParseIntTable == [ t \in DigitTokens |-> CHOOSE n \in 0..MaxNum : NumTok(n) = t ]

parseInt(tok) == ParseIntTable[tok]

----------------------------------------------------------------------------
(* String primitives *)

WS == " "

RECURSIVE TrimLeft(_)
TrimLeft(s) == IF Len(s) > 0 /\ Head(s) = WS THEN TrimLeft(Tail(s)) ELSE s

RECURSIVE TrimRight(_)
TrimRight(s) == IF Len(s) > 0 /\ Last(s) = WS THEN TrimRight(Front(s)) ELSE s

\* String.prototype.trim
Trim(s) == TrimRight(TrimLeft(s))

RECURSIVE DropTrailingSemis(_)
DropTrailingSemis(s) ==
    IF Len(s) > 0 /\ Last(s) = ";" THEN DropTrailingSemis(Front(s)) ELSE s

\* replace(/;+\s*$/g, "") : trailing white space together with the run of
\* semicolons before it; a text that does not end in semicolons is unchanged
StripTrailingSemicolons(s) ==
    LET noWs == TrimRight(s)
    IN  IF Len(noWs) > 0 /\ Last(noWs) = ";" THEN DropTrailingSemis(noWs) ELSE s

----------------------------------------------------------------------------
(* SQL safety gate (sqlChain.js) *)

allowedTables ==
    { "activity_logs", "allowance_details", "allowance_items", "allowances",
      "attendance_device_info", "attendances", "bank_info", "configurations",
      "departments", "employee_allowances", "employee_dependent",
      "employee_documents", "employee_leaves", "employee_roles",
      "employee_salary_records", "employees", "employment_types",
      "leave_types", "permissions", "public_holidays", "relation_types",
      "requested_leaves", "role_permissions", "roles" }

\* lexemes that are not made of [a-zA-Z0-9_] only
Punctuation ==
    { WS, ";", ",", ".", "(", ")", "*", "=", "'", "'%", "%'", "<fence>",
      "<fence sql>", "count(" }

\* [a-zA-Z0-9_]+
IsWord(tok) == tok \notin Punctuation

\* /(insert|update|delete|drop|alter|truncate|create|grant|revoke|replace|;)/i
\* is an unanchored search: it also hits inside a longer identifier, so the
\* column names created_at and updated_at are hits.
ForbiddenLexemes ==
    { "insert", "update", "delete", "drop", "alter", "truncate", "create",
      "grant", "revoke", "replace", ";" } \cup { "created_at", "updated_at" }

\* a test that lets every first word through
StartsWithSelect_AnyWord(s) == Len(s) > 0

\* /^select\b/i on trimmed text (ensureSelectOnly) and /^\s*select\b/i (queryDb)
StartsWithSelect(s) == Len(s) > 0 /\ Head(s) = "select"

Ok(sql) == [ok |-> TRUE, sql |-> sql, err |-> "none"]

Throw(err) == [ok |-> FALSE, sql |-> <<>>, err |-> err]

\* the opening fence (three backquotes and a language tag) and the closing
\* fence (three backquotes)
IsFence(tok) == tok \in { "<fence>", "<fence sql>" }

stripMarkdown(sql) ==
    LET cleaned == Trim(sql)
    IN  IF Len(cleaned) > 0 /\ IsFence(Head(cleaned)) /\ Last(cleaned) = "<fence>"
        THEN LET noOpen == Tail(cleaned)
                 noClose == IF Len(noOpen) > 0 /\ Last(noOpen) = "<fence>"
                            THEN Front(noOpen) ELSE noOpen
             IN  Trim(noClose)
        ELSE cleaned

ensureSelectOnly(sql) ==
    LET normalized == Trim(sql)
        trimmed == StripTrailingSemicolons(normalized)
    IN  IF ~StartsWithSelect(trimmed)
        THEN Throw("Only SELECT statements are allowed.")
        ELSE IF \E i \in 1..Len(trimmed) : trimmed[i] \in ForbiddenLexemes
        THEN Throw("Statement contains non-SELECT or unsafe content.")
        ELSE Ok(trimmed)

\* the tables /\b(from|join)\s+([a-zA-Z0-9_]+)/gi captures (optional
\* backquotes around the name left out): the word that directly follows each
\* FROM or JOIN
CapturedTables(sql) ==
    { sql[i + 1] : i \in { j \in 1..(Len(sql) - 1) :
                             sql[j] \in {"from", "join"} /\ IsWord(sql[j + 1]) } }

ensureAllowedTables(sql) ==
    IF \E t \in CapturedTables(sql) : t \notin allowedTables
    THEN Throw("Table is not allowed.")
    ELSE Ok(sql)

\* /\bcount\s*\(/i
IsCount(sql) == Contains(sql, "count(")

DefaultLimit == 50

ensureLimit(sql) ==
    LET isCount == IsCount(sql)
        hasLimit == Contains(sql, "limit")
    IN  IF ~isCount /\ ~hasLimit
        THEN sql \o <<"limit", NumTok(DefaultLimit)>>
        ELSE sql

\* generateSql after the completion call returned rawSql
gateSql(rawSql) ==
    LET s1 == ensureSelectOnly(stripMarkdown(rawSql))
    IN  IF ~s1.ok THEN s1
        ELSE LET s2 == ensureAllowedTables(s1.sql)
             IN  IF ~s2.ok THEN s2 ELSE Ok(ensureLimit(s2.sql))

\* first index where /\blimit\s+\d+/i matches, 0 when there is none
LimitClauseAt(sql) ==
    LET hits == { i \in 1..(Len(sql) - 1) : sql[i] = "limit" /\ IsNumber(sql[i + 1]) }
    IN  IF hits = {} THEN 0 ELSE CHOOSE i \in hits : \A j \in hits : i <= j

applyLimitOffset(sql, limit, offset) ==
    LET cleaned == Trim(StripTrailingSemicolons(sql))
        safeLimit == IF limit > 0 THEN limit ELSE DefaultLimit
        safeOffset == Max(0, offset)
        clause == <<"limit", NumTok(safeLimit), "offset", NumTok(safeOffset)>>
        at == LimitClauseAt(cleaned)
        \* /\blimit\s+\d+(\s+offset\s+\d+)?/i : the optional OFFSET part
        end == IF at + 3 <= Len(cleaned) /\ cleaned[at + 2] = "offset"
                  /\ IsNumber(cleaned[at + 3])
               THEN at + 3 ELSE at + 1
    IN  IF cleaned = <<>> THEN <<>>
        ELSE IF IsCount(cleaned) THEN cleaned
        ELSE IF at > 0 THEN Splice(cleaned, at, end, clause)
        ELSE cleaned \o clause

----------------------------------------------------------------------------
(* Read-only pool (db/query.js) *)

\* normalized.split(";").filter(Boolean).length : the pieces between
\* semicolons that are not the empty string
RECURSIVE NonEmptySegments(_, _)
NonEmptySegments(s, open) ==
    IF s = <<>> THEN (IF open THEN 1 ELSE 0)
    ELSE IF Head(s) = ";"
         THEN (IF open THEN 1 ELSE 0) + NonEmptySegments(Tail(s), FALSE)
         ELSE NonEmptySegments(Tail(s), TRUE)

\* queryDb up to the call of pool.execute: the statement handed to the pool,
\* or the error thrown before the pool is reached
queryDb(sql) ==
    LET normalized == Trim(sql)
        hasExtraStatements == NonEmptySegments(normalized, FALSE) > 1
        startsWithSelect == StartsWithSelect(normalized)
    IN  IF normalized = <<>>
        THEN Throw("SQL is required for read-only query.")
        ELSE IF hasExtraStatements \/ ~startsWithSelect
        THEN Throw("Only single SELECT statements are allowed.")
        ELSE Ok(normalized)

----------------------------------------------------------------------------
(* Questions: a question is a sequence of words *)

\* String.prototype.toLowerCase on the words of the vocabulary
LowerWord(w) ==
    CASE w = "Hamid" -> "hamid"
      [] w = "Sara" -> "sara"
      [] w = "Khan" -> "khan"
      [] w = "Next" -> "next"
      [] OTHER -> w

toLowerCase(q) == [i \in 1..Len(q) |-> LowerWord(q[i])]

\* keywords that occur inside a longer word of the vocabulary:
\* "hamid".includes("id"), "logs".includes("log") and so on
EmbeddedKeywords(w) ==
    CASE w = "hamid" -> {"id"}
      [] w = "employees" -> {"employee"}
      [] w = "leaves" -> {"leave"}
      [] w = "policies" -> {"policy"}
      [] OTHER -> {}

\* kw occurs at position i of q, word for word
MatchesAt(q, i, kw) ==
    /\ i >= 1
    /\ i + Len(kw) - 1 <= Len(q)
    /\ \A k \in 1..Len(kw) : q[i + k - 1] = kw[k]

\* q.includes(kw) for a keyword of one or more words
Includes(q, kw) ==
    \/ \E i \in 1..Len(q) : MatchesAt(q, i, kw)
    \/ Len(kw) = 1 /\ \E i \in 1..Len(q) : kw[1] \in EmbeddedKeywords(q[i])

\* every run of words of q, and every keyword inside one of its words
Phrases(q) ==
    { SubSeq(q, i, j) : i \in 1..Len(q), j \in 1..Len(q) }
    \cup { <<kw>> : kw \in UNION { EmbeddedKeywords(q[i]) : i \in 1..Len(q) } }

\* keywords.some((kw) => q.includes(kw)), given the phrases of q
SomeIn(keywords, phrases) == \E phrase \in phrases : phrase \in keywords

ENTITY_KEYWORDS ==
    { <<"employee">>, <<"employees">>, <<"staff">>, <<"staff", "member">>,
      <<"team", "member">>, <<"personnel">>, <<"worker">>,
      <<"employee", "record">>, <<"employee", "details">>, <<"attendance">>,
      <<"attendances">>, <<"check", "in">>, <<"check-in">>,
      <<"check", "out">>, <<"check-out">>, <<"punch">>, <<"clock", "in">>,
      <<"clock", "out">>, <<"working", "hours">>, <<"presence">>,
      <<"attendance", "device">>, <<"biometric", "device">>,
      <<"device", "id">>, <<"attendance", "device", "id">>,
      <<"attendance", "machine">>, <<"department">>, <<"departments">>,
      <<"team">>, <<"division">>, <<"unit">>, <<"leave">>, <<"leaves">>,
      <<"employee", "leave">>, <<"leave", "balance">>,
      <<"remaining", "leaves">>, <<"total", "leaves">>, <<"time", "off">>,
      <<"paid", "leave">>, <<"unpaid", "leave">>, <<"annual", "leave">>,
      <<"sick", "leave">>, <<"leave", "type">>, <<"leave", "category">>,
      <<"leave", "categories">>, <<"salary">>, <<"salaries">>,
      <<"current", "salary">>, <<"previous", "salary">>, <<"pay">>,
      <<"compensation">>, <<"increment">>, <<"salary", "increment">>,
      <<"allowance">>, <<"allowances">>, <<"employee", "allowance">>,
      <<"benefits">>, <<"extra", "pay">>, <<"allowance", "amount">>,
      <<"allowance", "type">>, <<"role">>, <<"roles">>,
      <<"employee", "role">>, <<"user", "role">>, <<"designation", "role">>,
      <<"permission">>, <<"permissions">>, <<"access">>,
      <<"access", "rights">>, <<"module", "permission">>,
      <<"api", "permission">>, <<"route", "permission">>,
      <<"public", "holiday">>, <<"public", "holidays">>, <<"holiday">>,
      <<"holidays">>, <<"official", "holiday">>, <<"bank">>,
      <<"bank", "info">>, <<"bank", "information">>, <<"bank", "account">>,
      <<"salary", "account">>, <<"employee", "document">>,
      <<"employee", "documents">>, <<"documents">>, <<"files">>,
      <<"attachments">>, <<"dependent">>, <<"dependents">>,
      <<"family", "member">>, <<"employee", "dependent">>,
      <<"employment", "type">>, <<"employment", "types">>,
      <<"full", "time">>, <<"part", "time">>, <<"contract">>, <<"intern">>,
      <<"activity", "log">>, <<"activity", "logs">>, <<"audit", "log">>,
      <<"audit", "trail">>, <<"system", "log">>, <<"user", "activity">> }

FIELD_KEYWORDS ==
    { <<"employee", "id">>, <<"id">>, <<"record", "id">>,
      <<"employee", "name">>, <<"name">>, <<"full", "name">>,
      <<"contact", "number">>, <<"phone">>, <<"phone", "number">>,
      <<"mobile">>, <<"mobile", "number">>,
      <<"personal", "contact", "number">>, <<"emergency", "contact">>,
      <<"emergency", "contact", "number">>, <<"email">>,
      <<"office", "email">>, <<"personal", "email">>, <<"address">>,
      <<"employee", "address">>, <<"designation">>, <<"job", "title">>,
      <<"position">>, <<"department">>, <<"joining", "date">>,
      <<"join", "date">>, <<"exit", "date">>, <<"resignation", "date">>,
      <<"employment", "status">>, <<"active">>, <<"inactive">>,
      <<"current", "salary">>, <<"previous", "salary">>,
      <<"increment", "amount">>, <<"salary", "amount">>, <<"date">>,
      <<"attendance", "date">>, <<"check", "in", "time">>,
      <<"check", "out", "time">>, <<"working", "time">>, <<"status">>,
      <<"present">>, <<"absent">>, <<"leave", "year">>,
      <<"remaining", "leave">>, <<"remaining", "leaves">>,
      <<"total", "leave">>, <<"total", "leaves">>, <<"allowance", "amount">>,
      <<"payment", "type">>, <<"monthly", "allowance">>,
      <<"one", "time", "allowance">>, <<"module">>, <<"api", "endpoint">>,
      <<"route">>, <<"method">>, <<"action">>, <<"created", "at">>,
      <<"activity", "time">> }

SQL_ACTION_KEYWORDS ==
    { <<"list">>, <<"show">>, <<"get">>, <<"fetch">>, <<"display">>,
      <<"give">>, <<"find">>, <<"view">>, <<"retrieve">>, <<"count">>,
      <<"how", "many">>, <<"total", "number">>, <<"number", "of">>,
      <<"latest">>, <<"recent">>, <<"today">>, <<"this", "month">>,
      <<"this", "year">>, <<"remaining">>, <<"balance">>, <<"history">>,
      <<"records">> }

RAG_KEYWORDS ==
    { <<"policy">>, <<"policies">>, <<"company", "policy">>,
      <<"leave", "policy">>, <<"attendance", "policy">>, <<"procedure">>,
      <<"process">>, <<"workflow">>, <<"guidelines">>, <<"rules">>,
      <<"onboarding">>, <<"offboarding">>, <<"hr", "policy">>, <<"product">>,
      <<"products">>, <<"service">>, <<"services">>, <<"company", "info">>,
      <<"about", "company">>, <<"convier", "solutions">>,
      <<"organization", "info">> }

\* structured keywords that are entity and field keywords only
STRUCTURED_KEYWORDS_WithoutActions == ENTITY_KEYWORDS \cup FIELD_KEYWORDS

STRUCTURED_KEYWORDS == ENTITY_KEYWORDS \cup FIELD_KEYWORDS \cup SQL_ACTION_KEYWORDS

NoIntent == "null"

Intents == { "DATABASE_QUERY", "RAG_QUERY", "GENERAL_CHAT" }

\* a rule tier that looks at the document keywords first
ruleBasedIntent_DocumentsFirst(question) ==
    LET phrases == Phrases(toLowerCase(question))
    IN  IF question = <<>> THEN NoIntent
        ELSE IF SomeIn(RAG_KEYWORDS, phrases) THEN "RAG_QUERY"
        ELSE IF SomeIn(STRUCTURED_KEYWORDS, phrases) THEN "DATABASE_QUERY"
        ELSE NoIntent

ruleBasedIntent(question) ==
    LET q == toLowerCase(question)
        phrases == Phrases(q)
        hasAction == SomeIn(SQL_ACTION_KEYWORDS, phrases)
        hasStructured == SomeIn(STRUCTURED_KEYWORDS, phrases)
        hasRag == SomeIn(RAG_KEYWORDS, phrases)
    IN  IF question = <<>> THEN NoIntent
        ELSE IF hasAction /\ hasStructured THEN "DATABASE_QUERY"
        ELSE IF hasAction /\ hasRag /\ ~hasStructured THEN "RAG_QUERY"
        ELSE IF hasStructured /\ ~hasRag THEN "DATABASE_QUERY"
        ELSE IF hasRag /\ ~hasStructured THEN "RAG_QUERY"
        ELSE NoIntent

\* a normalisation that does not trim
NormalizeLabel_NoTrim(raw) ==
    IF Len(raw) = 1 /\ raw[1] \in { "DATABASE_QUERY", "RAG_QUERY", "GENERAL_CHAT" }
    THEN raw[1] ELSE "OTHER"

\* classifyQuestionIntent after the completion call returned raw: the label
\* is accepted after trim and toUpperCase, anything else falls back
NormalizeLabel(raw) ==
    LET t == Trim(raw)
    IN  IF Len(t) = 1
        THEN CASE t[1] \in {"DATABASE_QUERY", "database_query"} -> "DATABASE_QUERY"
               [] t[1] \in {"RAG_QUERY", "rag_query"} -> "RAG_QUERY"
               [] t[1] \in {"GENERAL_CHAT", "general_chat"} -> "GENERAL_CHAT"
               [] OTHER -> "OTHER"
        ELSE "OTHER"

classifyFromModel(question, raw) ==
    LET normalized == NormalizeLabel(raw)
        q == toLowerCase(question)
    IN  IF normalized \in Intents THEN normalized
        ELSE IF SomeIn(STRUCTURED_KEYWORDS, Phrases(q)) THEN "DATABASE_QUERY"
        ELSE "RAG_QUERY"

\* what the completion call of the classifier may return
LabelOutputs ==
    { <<"DATABASE_QUERY">>, <<WS, "rag_query", WS>>, <<"GENERAL_CHAT">>,
      <<WS, "general_chat">>, <<"I", "think", "RAG_QUERY">>, <<>> }

----------------------------------------------------------------------------
(* Pagination detector (routeQuestion's module) *)

NoDirection == "null"

detectPaginationDirection(question) ==
    LET q == toLowerCase(Trim(question))
        isNext ==
            \/ MatchesAt(q, 1, <<"next">>)
            \/ MatchesAt(q, 1, <<"show", "more">>)
            \/ MatchesAt(q, 1, <<"more">>)
            \/ \E i \in 1..Len(q) : MatchesAt(q, i, <<"more", "results">>)
            \/ \E i \in 1..Len(q) : MatchesAt(q, i, <<"next", "set">>)
        isPrev ==
            \/ MatchesAt(q, 1, <<"previous">>)
            \/ MatchesAt(q, 1, <<"prev">>)
            \/ \E i \in 1..Len(q) : MatchesAt(q, i, <<"go", "back">>)
            \/ \E i \in 1..Len(q) : MatchesAt(q, i, <<"back">>)
    IN  IF q = <<>> THEN NoDirection
        ELSE IF isNext THEN "next"
        ELSE IF isPrev THEN "previous"
        ELSE NoDirection

----------------------------------------------------------------------------
(* Reference resolution and the rule-based fast path (sqlChain.js) *)

\* a word that starts with a capital letter: lowering changes it
IsCapitalized(w) == LowerWord(w) # w

\* fixed sentences of the answers and opaque completion output, each one
\* lexeme; they contain characters outside [a-zA-Z\s.'-]
DbExplanation == "This answer is based on live HR database records."

DbPagedExplanation ==
    "This answer is based on live HR database records (paginated results)."

RagExplanation ==
    "This answer is based on company documents and knowledge-base content."

GeneralExplanation ==
    "This is a general conversational response and does not use internal company data."

Greeting == "Hi there! How can I help you today?"

NoEarlierResults ==
    "I don't have any earlier database results to navigate. Please ask a data question first."

GenerationFailed ==
    "I couldn't generate a safe database query for that request. Please rephrase or narrow the question."

ExecutionFailed ==
    "I couldn't run that database query safely. Please adjust the question or try a simpler one."

PageReuseFailed ==
    "I couldn't reuse the previous database query for pagination. Please ask your data question again."

PageExecutionFailed ==
    "I couldn't fetch the next set of database results safely. Please try again or adjust the request."

CompletionText == "<completion text>"

Sentences ==
    { DbExplanation, DbPagedExplanation, RagExplanation, GeneralExplanation,
      Greeting, NoEarlierResults, GenerationFailed, ExecutionFailed,
      PageReuseFailed, PageExecutionFailed, CompletionText,
      "(You said:", ")", "(showing results starting from row", "?" }

\* the word is made of [a-zA-Z.'-] only
IsNameWord(w) == w \notin Sentences /\ ~IsNumber(w) /\ w # WS

\* length of the run of name words of text that starts at position i
RECURSIVE NameRun(_, _)
NameRun(text, i) ==
    IF i <= Len(text) /\ IsNameWord(text[i]) THEN 1 + NameRun(text, i + 1) ELSE 0

\* /\b[A-Z][a-zA-Z.'-]+\s+[A-Z][a-zA-Z.'-]+\b/
questionHasPersonName(question) ==
    LET q == Trim(question)
    IN  \E i \in 1..(Len(q) - 1) :
            /\ IsCapitalized(q[i]) /\ IsNameWord(q[i])
            /\ IsCapitalized(q[i + 1]) /\ IsNameWord(q[i + 1])

shouldUseEmployeeContext(question) ==
    LET q == toLowerCase(question)
    IN  \E kw \in { "attendance", "leave", "salary", "contact", "details",
                    "info", "profile" } : Includes(q, <<kw>>)

\* q.includes("his ") and the like: the pronoun (or a word ending in it, as
\* "this") followed by a blank, so it is not the last word
containsPronounReference(question) ==
    LET q == toLowerCase(question)
    IN  \/ \E i \in 1..(Len(q) - 1) : q[i] \in { "his", "this", "her", "their" }
        \/ \E kw \in { <<"that", "employee">>, <<"this", "employee">>,
                       <<"that", "person">>, <<"this", "person">> } :
               Includes(q, kw)

\* first position where lead (lower case) is followed by a run of name
\* words, 0 when there is none
LeadAt(text, lead) ==
    LET low == toLowerCase(text)
        hits == { i \in 1..Len(text) :
                    MatchesAt(low, i, lead) /\ NameRun(text, i + Len(lead)) > 0 }
    IN  IF hits = {} THEN 0 ELSE CHOOSE i \in hits : \A j \in hits : i <= j

\* the name one message yields, <<>> when it yields none
NameInMessage(content) ==
    LET text == Trim(content)
        who == LeadAt(text, <<"who", "is">>)
        about == LeadAt(text, <<"about">>)
        caps == { i \in 1..(Len(text) - 2) :
                    /\ IsCapitalized(text[i]) /\ IsNameWord(text[i])
                    /\ IsCapitalized(text[i + 1]) /\ IsNameWord(text[i + 1])
                    /\ text[i + 2] = "is" }
    IN  IF who > 0 THEN SubSeq(text, who + 2, who + 1 + NameRun(text, who + 2))
        ELSE IF about > 0
        THEN SubSeq(text, about + 1, about + NameRun(text, about + 1))
        ELSE IF caps # {}
        THEN LET i == CHOOSE k \in caps : \A j \in caps : k <= j
             IN  SubSeq(text, i, i + 1)
        ELSE <<>>

\* scans the history from the newest message to the oldest
RECURSIVE extractEmployeeNameFromHistory(_)
extractEmployeeNameFromHistory(history) ==
    IF history = <<>> THEN <<>>
    ELSE LET name == NameInMessage(Last(history).content)
         IN  IF name # <<>> THEN name
             ELSE extractEmployeeNameFromHistory(Front(history))

\* runSqlChain, lines 464-474
normalizeQuestion(question, history) ==
    LET hasName == questionHasPersonName(question)
        useContext == shouldUseEmployeeContext(question)
        hasPronoun == containsPronounReference(question)
        lastName == extractEmployeeNameFromHistory(history)
    IN  IF ~hasName /\ (useContext \/ hasPronoun) /\ lastName # <<>>
        THEN question \o <<"for">> \o lastName
        ELSE question

LeaveTypes == { "casual", "sick", "annual", "earned", "unpaid", "paid" }

LeaveTemplate(leaveType, name) ==
    << "select", "employees", ".", "employee_name", ",",
       "leave_types", ".", "leave_name", "as", "category_name", ",",
       "employee_leaves", ".", "remaining_leaves", ",",
       "employee_leaves", ".", "year",
       "from", "employee_leaves",
       "join", "employees", "on", "employee_leaves", ".", "employee_id", "=",
       "employees", ".", "id",
       "join", "leave_types", "on", "employee_leaves", ".", "leave_type_id",
       "=", "leave_types", ".", "id",
       "where", "lower", "(", "leave_types", ".", "leave_name", ")", "like",
       "'%", leaveType, "%'" >>
    \o (IF name # <<>>
        THEN << "and", "employees", ".", "employee_name", "like", "'%" >>
             \o name \o << "%'" >>
        ELSE <<>>)
    \o << "limit", NumTok(DefaultLimit) >>

ActivityLogsTemplate ==
    << "select", "user_id", ",", "module", ",", "action", ",", "record_id", ",",
       "created_at", "from", "activity_logs", "order", "by", "created_at",
       "desc", "limit", NumTok(DefaultLimit) >>

\* the SQL of the fast path, <<>> when no shape matches
buildRuleBasedSql(question) ==
    LET q == toLowerCase(question)
        leaveAt == { i \in 1..(Len(q) - 1) :
                       q[i] \in LeaveTypes /\ q[i + 1] = "leave" }
        \* /\bof\s+([a-zA-Z\s.'-]+)$/ : an "of" with only name words up to the end
        ofAt == { i \in 1..(Len(q) - 1) :
                    q[i] = "of" /\ NameRun(q, i + 1) = Len(q) - i }
        name == IF ofAt = {} THEN <<>>
                ELSE LET i == CHOOSE k \in ofAt : \A j \in ofAt : k <= j
                     IN  Trim(SubSeq(q, i + 1, Len(q)))
        wantsActivityLogs ==
            \E kw \in { <<"activity", "log">>, <<"activity", "logs">>,
                        <<"audit", "log">>, <<"system", "log">> } :
                Includes(q, kw)
    IN  IF q = <<>> THEN <<>>
        ELSE IF leaveAt # {}
        THEN LET i == CHOOSE k \in leaveAt : \A j \in leaveAt : k <= j
             IN  LeaveTemplate(q[i], name)
        ELSE IF wantsActivityLogs THEN ActivityLogsTemplate
        ELSE <<>>

----------------------------------------------------------------------------
(* Session store and request state (routeQuestion's module) *)

MAX_HISTORY_MESSAGES == 12

SessionIds == { "s1", "s2" }

\* a request without a usable sessionId
NoSid == "none"

Slots == { 1 }

NullQuery ==
    [present |-> FALSE, sql |-> <<>>, originalQuestion |-> <<>>,
     offset |-> 0, limit |-> 0]

\* a session id the map does not hold yet; also stands for the null session
\* of a request without session id
NoSession == [present |-> FALSE, lastDatabaseQuery |-> NullQuery, history |-> <<>>]

getSessionState(ss, sessionId) ==
    IF sessionId = NoSid THEN NoSession
    ELSE IF ~ss.present
    THEN [present |-> TRUE, lastDatabaseQuery |-> NullQuery, history |-> <<>>]
    ELSE ss

\* a cap that keeps the oldest entries
appendHistory_KeepsOldest(session, role, content) ==
    IF ~session.present \/ content = <<>> THEN session
    ELSE LET h == Append(session.history, [role |-> role, content |-> content])
         IN  [session EXCEPT !.history =
                 IF Len(h) > MAX_HISTORY_MESSAGES
                 THEN SubSeq(h, 1, MAX_HISTORY_MESSAGES)
                 ELSE h]

appendHistory(session, role, content) ==
    IF ~session.present \/ content = <<>> THEN session
    ELSE LET h == Append(session.history, [role |-> role, content |-> content])
         IN  [session EXCEPT !.history =
                 IF Len(h) > MAX_HISTORY_MESSAGES
                 THEN SubSeq(h, Len(h) - MAX_HISTORY_MESSAGES + 1, Len(h))
                 ELSE h]

\* rows as the code looks at them: how many, and which id columns they carry
NoRows == [any |-> FALSE, employeeIds |-> FALSE, userIds |-> FALSE,
           employeeNames |-> FALSE, actorNames |-> FALSE]

RowSets ==
    { NoRows }
    \cup { [any |-> TRUE, employeeIds |-> e, userIds |-> u,
            employeeNames |-> FALSE, actorNames |-> FALSE] : e, u \in BOOLEAN }

\* the row sets of the chat specification: none, rows with employee ids,
\* rows with user ids
ChatRowSets == { rows \in RowSets : rows.employeeIds # rows.userIds } \cup { NoRows }

NoPayload ==
    [intent |-> "none", source |-> "none", answer |-> <<>>, sql |-> <<>>,
     rows |-> NoRows, hasSql |-> FALSE]

\* what a request remembers of the request its slot handled before it
NoEarlierRequest ==
    [pc |-> "idle", sid |-> NoSid, direction |-> "null", before |-> NullQuery,
     intent |-> "none"]

\* pc: where the request stands.  question .. rows, context: the locals of
\* routeQuestion, runSqlChain, runSqlPage and runRag.  payload: what
\* routeQuestion returned.  The remaining fields record the run for the
\* properties below and are read by no action: generated (how generateSql
\* ended), handed (statements handed to the pool so far), before (the
\* session as the request found it), earlier (the slot's previous request),
\* tier (how far classifyQuestionIntent went: not called, rule tier only,
\* completion call issued), label (what that completion call returned),
\* body (the types of the question and sessionId of the body, when the
\* request came through chatRoute), late (the pool call that lost the race
\* against the timer of executeSql: none, pending, settled), normalized
\* (normalizedQuestion of runSqlChain).
NoBody == [question |-> "none", sessionId |-> "none"]

IdleRequest ==
    [pc |-> "idle", sid |-> NoSid, question |-> <<>>, direction |-> "null",
     intent |-> "none", paginated |-> FALSE, originalQuestion |-> <<>>,
     newOffset |-> 0, pageSize |-> 0, raw |-> <<>>, sql |-> <<>>,
     stmt |-> <<>>, rows |-> NoRows, context |-> "none",
     payload |-> NoPayload, generated |-> "no", handed |-> 0,
     before |-> NoSession, earlier |-> NoEarlierRequest,
     tier |-> "none", label |-> <<>>, body |-> NoBody, late |-> "none",
     normalized |-> <<>>]

VARIABLES
    sessionState,   \* the session map: session id -> session
    req,            \* the request each slot is handling, and where it stands
    served,         \* number of requests started so far
    faults          \* number of collaborator failures injected so far

vars == <<sessionState, req, served, faults>>

Init ==
    /\ sessionState = [s \in SessionIds |-> NoSession]
    /\ req = [r \in Slots |-> IdleRequest]
    /\ served = 0
    /\ faults = 0

----------------------------------------------------------------------------
(* What the collaborators may return *)

Questions ==
    { <<"next">>, <<"go", "back">>, <<"list", "employees">>,
      <<"show", "activity", "logs">>, <<"refund", "policy">>, <<"hello">> }

\* candidates of the SQL completion call inside a chat request
ChatCandidates ==
    { <<"select", "employee_name", "from", "employees">>,
      <<"select", "employee_name", "from", "employees", "limit", "10">>,
      <<"select", "count(", "*", ")", "from", "employees">>,
      <<"update", "employees", "set", "is_active", "=", "0">>,
      <<"show", "tables">> }

EmployeeLookupSql ==
    << "select", "id", ",", "employee_name", ",", "office_email", "from",
       "employees", "where", "id", "in", "(", "7", ")" >>

UserLookupSql ==
    << "select", "id", ",", "first_name", ",", "last_name", ",", "email",
       "from", "users", "where", "id", "in", "(", "7", ")" >>

\* the session ids of the chat specification
ChatSessionIds == { "s1" }

----------------------------------------------------------------------------
(* routeQuestion and the chains it awaits, as steps on (request, session) *)

Step(rq, ss) == [rq |-> rq, ss |-> ss]

buildGeneralChatAnswer(question) ==
    LET trimmed == Trim(question)
    IN  IF trimmed = <<>> THEN <<Greeting>>
        ELSE <<Greeting, "(You said:">> \o trimmed \o <<")">>

\* a database answer whose fallback texts go out without the sentence
buildDatabaseAnswer_BareFallbacks(result, paginated) ==
    LET explanation == IF paginated THEN DbPagedExplanation ELSE DbExplanation
    IN  [result EXCEPT !.answer =
            IF result.sql = <<>> /\ result.answer # <<>> THEN result.answer
            ELSE IF result.answer # <<>> THEN <<explanation>> \o result.answer
            ELSE <<explanation>>]

buildDatabaseAnswer(result, paginated) ==
    LET explanation == IF paginated THEN DbPagedExplanation ELSE DbExplanation
    IN  [result EXCEPT !.answer =
            IF result.answer # <<>> THEN <<explanation>> \o result.answer
            ELSE <<explanation>>]

Result(sql, rows, answer) == [sql |-> sql, rows |-> rows, answer |-> answer]

\* a return that leaves the history alone
Return_NoLog(rq, ss, payload) ==
    Step([rq EXCEPT !.pc = "done", !.stmt = <<>>, !.payload = payload], ss)

\* the request returns payload; the answer goes to the history first
Return(rq, ss, payload) ==
    Step([rq EXCEPT !.pc = "done", !.stmt = <<>>, !.payload = payload],
         appendHistory(ss, "assistant", payload.answer))

\* an exception leaves routeQuestion; chatRoute answers with status 500
Fail(rq, ss) == Step([rq EXCEPT !.pc = "failed", !.stmt = <<>>], ss)

\* a router that stores a descriptor whatever runSqlChain returned
AfterSqlChain_AlwaysStores(rq, ss, result) ==
    LET stored == IF ss.present
                  THEN [ss EXCEPT !.lastDatabaseQuery =
                           [present |-> TRUE, sql |-> result.sql,
                            originalQuestion |-> rq.question, offset |-> 0,
                            limit |-> DefaultLimit]]
                  ELSE ss
        shown == buildDatabaseAnswer(result, FALSE)
    IN  Return(rq, stored,
               [intent |-> rq.intent, source |-> "database",
                answer |-> shown.answer, sql |-> shown.sql, rows |-> shown.rows,
                hasSql |-> TRUE])

\* a router that stores the number of the LIMIT clause as it is
AfterSqlChain_StoresParsedLimit(rq, ss, result) ==
    LET at == LimitClauseAt(result.sql)
        limit == IF at > 0 THEN parseInt(result.sql[at + 1]) ELSE DefaultLimit
        stored == IF ss.present /\ result.sql # <<>>
                  THEN [ss EXCEPT !.lastDatabaseQuery =
                           [present |-> TRUE, sql |-> result.sql,
                            originalQuestion |-> rq.question, offset |-> 0,
                            limit |-> limit]]
                  ELSE ss
        shown == buildDatabaseAnswer(result, FALSE)
    IN  Return(rq, stored,
               [intent |-> rq.intent, source |-> "database",
                answer |-> shown.answer, sql |-> shown.sql, rows |-> shown.rows,
                hasSql |-> TRUE])

\* a router that merges the new descriptor with the window it finds
AfterSqlChain_KeepsOffset(rq, ss, result) ==
    LET at == LimitClauseAt(result.sql)
        limit == IF at > 0 THEN parseInt(result.sql[at + 1]) ELSE DefaultLimit
        stored == IF ss.present /\ result.sql # <<>>
                  THEN [ss EXCEPT !.lastDatabaseQuery =
                           [present |-> TRUE, sql |-> result.sql,
                            originalQuestion |-> rq.question,
                            offset |-> IF ss.lastDatabaseQuery.present
                                       THEN ss.lastDatabaseQuery.offset ELSE 0,
                            limit |-> IF limit > 0 THEN limit ELSE DefaultLimit]]
                  ELSE ss
        shown == buildDatabaseAnswer(result, FALSE)
    IN  Return(rq, stored,
               [intent |-> rq.intent, source |-> "database",
                answer |-> shown.answer, sql |-> shown.sql, rows |-> shown.rows,
                hasSql |-> TRUE])

\* routeQuestion after runSqlChain returned result
AfterSqlChain(rq, ss, result) ==
    LET at == LimitClauseAt(result.sql)
        limit == IF at > 0 THEN parseInt(result.sql[at + 1]) ELSE DefaultLimit
        stored == IF ss.present /\ result.sql # <<>>
                  THEN [ss EXCEPT !.lastDatabaseQuery =
                           [present |-> TRUE, sql |-> result.sql,
                            originalQuestion |-> rq.question, offset |-> 0,
                            limit |-> IF limit > 0 THEN limit ELSE DefaultLimit]]
                  ELSE ss
        shown == buildDatabaseAnswer(result, FALSE)
    IN  Return(rq, stored,
               [intent |-> rq.intent, source |-> "database",
                answer |-> shown.answer, sql |-> shown.sql, rows |-> shown.rows,
                hasSql |-> TRUE])

\* routeQuestion after runSqlPage returned pageResult
AfterSqlPage(rq, ss, pageResult) ==
    LET stored == IF pageResult.sql # <<>>
                  THEN [ss EXCEPT !.lastDatabaseQuery =
                           [present |-> TRUE, sql |-> pageResult.sql,
                            originalQuestion |-> rq.originalQuestion,
                            offset |-> rq.newOffset, limit |-> rq.pageSize]]
                  ELSE ss
        shown == buildDatabaseAnswer(pageResult, TRUE)
    IN  Return(rq, stored,
               [intent |-> "DATABASE_QUERY", source |-> "database",
                answer |-> shown.answer, sql |-> shown.sql, rows |-> shown.rows,
                hasSql |-> TRUE])

AfterSql(rq, ss, result) ==
    IF rq.paginated THEN AfterSqlPage(rq, ss, result) ELSE AfterSqlChain(rq, ss, result)

\* the catch blocks around executeSql of runSqlChain and runSqlPage
ExecutionFailure(rq, ss) ==
    AfterSql(rq, ss,
             Result(rq.sql, NoRows,
                    <<IF rq.paginated THEN PageExecutionFailed ELSE ExecutionFailed>>))

\* executeSql(sql) of the primary query: queryDb either hands the statement
\* to the pool or throws before reaching it
executeSql(rq, ss, sql) ==
    LET q == queryDb(sql)
        held == [rq EXCEPT !.sql = sql]
    IN  IF q.ok
        THEN Step([held EXCEPT !.pc = "execute", !.stmt = q.sql,
                               !.handed = @ + 1], ss)
        ELSE ExecutionFailure(held, ss)

\* formatAnswer is awaited
ToFormat(rq, ss) == Step([rq EXCEPT !.pc = "format", !.stmt = <<>>], ss)

\* enrichRowsWithEmployees: the user lookup, when the rows carry user ids
ToUserLookup(rq, ss) ==
    LET q == queryDb(UserLookupSql)
    IN  IF rq.rows.userIds /\ q.ok
        THEN Step([rq EXCEPT !.pc = "lookupUsers", !.stmt = q.sql,
                             !.handed = @ + 1], ss)
        ELSE ToFormat(rq, ss)

\* enrichRowsWithEmployees up to its first lookup
enrichRowsWithEmployees(rq, ss) ==
    LET q == queryDb(EmployeeLookupSql)
    IN  IF ~rq.rows.any \/ (~rq.rows.employeeIds /\ ~rq.rows.userIds)
        THEN ToFormat(rq, ss)
        ELSE IF rq.rows.employeeIds /\ q.ok
        THEN Step([rq EXCEPT !.pc = "lookupEmployees", !.stmt = q.sql,
                             !.handed = @ + 1], ss)
        ELSE ToUserLookup(rq, ss)

\* runSqlChain up to its first await
runSqlChain(rq, ss) ==
    LET normalizedQuestion == normalizeQuestion(rq.question, ss.history)
        ruleSql == buildRuleBasedSql(normalizedQuestion)
        held == [rq EXCEPT !.normalized = normalizedQuestion]
    IN  IF ruleSql # <<>> THEN executeSql(held, ss, ruleSql)
        ELSE Step([held EXCEPT !.pc = "generate"], ss)

\* a dispatch that forgets the descriptor when the question is no database
\* question
Dispatch_ClearsDescriptor(rq0, ss0, intent) ==
    LET rq == [rq0 EXCEPT !.intent = intent]
        ss == IF intent # "DATABASE_QUERY" /\ ss0.present
              THEN [ss0 EXCEPT !.lastDatabaseQuery = NullQuery] ELSE ss0
    IN  IF intent = "DATABASE_QUERY" THEN runSqlChain(rq, ss)
        ELSE IF intent = "RAG_QUERY"
        THEN Step([rq EXCEPT !.pc = IF Trim(rq.question) = <<>>
                                    THEN "complete" ELSE "retrieve"], ss)
        ELSE Return(rq, ss,
                    [intent |-> "GENERAL_CHAT", source |-> "general",
                     answer |-> <<GeneralExplanation>>
                                \o buildGeneralChatAnswer(rq.question),
                     sql |-> <<>>, rows |-> NoRows, hasSql |-> FALSE])

\* a dispatch whose general answer carries sql and rows fields
Dispatch_GeneralCarriesSql(rq0, ss, intent) ==
    LET rq == [rq0 EXCEPT !.intent = intent]
    IN  IF intent = "DATABASE_QUERY" THEN runSqlChain(rq, ss)
        ELSE IF intent = "RAG_QUERY"
        THEN Step([rq EXCEPT !.pc = IF Trim(rq.question) = <<>>
                                    THEN "complete" ELSE "retrieve"], ss)
        ELSE Return(rq, ss,
                    [intent |-> "GENERAL_CHAT", source |-> "general",
                     answer |-> <<GeneralExplanation>>
                                \o buildGeneralChatAnswer(rq.question),
                     sql |-> <<>>, rows |-> NoRows, hasSql |-> TRUE])

\* routeQuestion once the intent is known
Dispatch(rq0, ss, intent) ==
    LET rq == [rq0 EXCEPT !.intent = intent]
    IN  IF intent = "DATABASE_QUERY" THEN runSqlChain(rq, ss)
        ELSE IF intent = "RAG_QUERY"
        THEN Step([rq EXCEPT !.pc = IF Trim(rq.question) = <<>>
                                    THEN "complete" ELSE "retrieve"], ss)
        ELSE Return(rq, ss,
                    [intent |-> "GENERAL_CHAT", source |-> "general",
                     answer |-> <<GeneralExplanation>>
                                \o buildGeneralChatAnswer(rq.question),
                     sql |-> <<>>, rows |-> NoRows, hasSql |-> FALSE])

\* a window that always moves by the default page size
NewOffset_DefaultStep(direction, offset, pageSize) ==
    IF direction = "next" THEN offset + DefaultLimit
    ELSE Max(0, offset - DefaultLimit)

\* a window that does not move back
NewOffset_PreviousStays(direction, offset, pageSize) ==
    IF direction = "next" THEN offset + pageSize ELSE Max(0, offset)

\* the window of the page asked for
NewOffset(direction, offset, pageSize) ==
    IF direction = "next" THEN offset + pageSize ELSE Max(0, offset - pageSize)

\* a pagination branch whose early return also logs its answer
Paginate_LogsAnswer(rq0, ss, direction) ==
    LET last == ss.lastDatabaseQuery
        pageSize == IF last.limit > 0 THEN last.limit ELSE DefaultLimit
        newOffset == NewOffset(direction, last.offset, pageSize)
        rq == [rq0 EXCEPT !.paginated = TRUE, !.intent = "DATABASE_QUERY",
                          !.originalQuestion = last.originalQuestion,
                          !.newOffset = newOffset, !.pageSize = pageSize]
        pagedSql == applyLimitOffset(last.sql, pageSize, newOffset)
    IN  IF ~last.present
        THEN Return(rq0, ss,
                    [intent |-> "GENERAL_CHAT", source |-> "general",
                     answer |-> <<NoEarlierResults>>, sql |-> <<>>,
                     rows |-> NoRows, hasSql |-> FALSE])
        ELSE IF pagedSql = <<>>
        THEN AfterSqlPage(rq, ss, Result(<<>>, NoRows, <<PageReuseFailed>>))
        ELSE executeSql(rq, ss, pagedSql)

\* the pagination branch of routeQuestion
Paginate(rq0, ss, direction) ==
    LET last == ss.lastDatabaseQuery
        pageSize == IF last.limit > 0 THEN last.limit ELSE DefaultLimit
        newOffset == NewOffset(direction, last.offset, pageSize)
        rq == [rq0 EXCEPT !.paginated = TRUE, !.intent = "DATABASE_QUERY",
                          !.originalQuestion = last.originalQuestion,
                          !.newOffset = newOffset, !.pageSize = pageSize]
        pagedSql == applyLimitOffset(last.sql, pageSize, newOffset)
    IN  IF ~last.present
        THEN Step([rq0 EXCEPT !.pc = "done", !.payload =
                      [intent |-> "GENERAL_CHAT", source |-> "general",
                       answer |-> <<NoEarlierResults>>, sql |-> <<>>,
                       rows |-> NoRows, hasSql |-> FALSE]], ss)
        ELSE IF pagedSql = <<>>
        THEN AfterSqlPage(rq, ss, Result(<<>>, NoRows, <<PageReuseFailed>>))
        ELSE executeSql(rq, ss, pagedSql)

\* a router that asks the classifier's rule tier before the pagination check
routeQuestion_ClassifiesFirst(question, sessionId, ss0, earlier) ==
    LET trimmedQuestion == Trim(question)
        session == getSessionState(ss0, sessionId)
        direction == detectPaginationDirection(trimmedQuestion)
        ss == IF trimmedQuestion # <<>>
              THEN appendHistory(session, "user", trimmedQuestion) ELSE session
        rq == [IdleRequest EXCEPT !.sid = sessionId, !.question = trimmedQuestion,
                                  !.direction = direction, !.before = ss0,
                                  !.earlier = earlier]
        rb == ruleBasedIntent(trimmedQuestion)
    IN  IF rb # NoIntent THEN Dispatch([rq EXCEPT !.tier = "rule"], ss, rb)
        ELSE IF direction # NoDirection THEN Paginate(rq, ss, direction)
        ELSE Step([rq EXCEPT !.pc = "classify", !.tier = "model"], ss)

\* routeQuestion up to its first await
routeQuestion(question, sessionId, ss0, earlier) ==
    LET trimmedQuestion == Trim(question)
        session == getSessionState(ss0, sessionId)
        direction == detectPaginationDirection(trimmedQuestion)
        ss == IF trimmedQuestion # <<>>
              THEN appendHistory(session, "user", trimmedQuestion) ELSE session
        rq == [IdleRequest EXCEPT !.sid = sessionId, !.question = trimmedQuestion,
                                  !.direction = direction, !.before = ss0,
                                  !.earlier = earlier]
        rb == ruleBasedIntent(trimmedQuestion)
    IN  IF direction # NoDirection THEN Paginate(rq, ss, direction)
        ELSE IF rb # NoIntent THEN Dispatch([rq EXCEPT !.tier = "rule"], ss, rb)
        ELSE Step([rq EXCEPT !.pc = "classify", !.tier = "model"], ss)

----------------------------------------------------------------------------
(* POST /chat (api/chatRoute.js).  A value of the body is a record of its
   type (string, number, missing) and, for a string, its text *)

\* !question || typeof question !== "string" does not hold
IsValidQuestion(question) == question.type = "string" /\ question.text # <<>>

\* a handler that falls back to one session for bodies without a usable id
SessionArg_DefaultSession(sessionId) ==
    IF sessionId.type = "string" /\ sessionId.text # "" THEN sessionId.text ELSE "s1"

\* typeof sessionId === "string" ? sessionId : undefined, as getSessionState
\* reads it: the empty string and undefined give no session
SessionArg(sessionId) ==
    IF sessionId.type = "string" /\ sessionId.text # "" THEN sessionId.text ELSE NoSid

\* the type of the sessionId of the body; the empty string apart
SessionIdType(sessionId) ==
    IF sessionId.type = "string" /\ sessionId.text = "" THEN "empty" ELSE sessionId.type

\* a handler that looks the session up before it validates the question
chatRoute_SessionFirst(body, ss0, earlier) ==
    LET sid == SessionArg(body.sessionId)
        types == [question |-> body.question.type,
                  sessionId |-> SessionIdType(body.sessionId)]
        routed == routeQuestion(body.question.text, sid, ss0, earlier)
    IN  IF ~IsValidQuestion(body.question)
        THEN Step([IdleRequest EXCEPT !.pc = "rejected", !.sid = sid,
                                      !.before = ss0, !.earlier = earlier,
                                      !.body = types],
                  getSessionState(ss0, sid))
        ELSE Step([routed.rq EXCEPT !.body = types], routed.ss)

\* the handler of POST /chat up to the first await of routeQuestion; a
\* rejected request ends with status 400
chatRoute(body, ss0, earlier) ==
    LET sid == SessionArg(body.sessionId)
        types == [question |-> body.question.type,
                  sessionId |-> SessionIdType(body.sessionId)]
        routed == routeQuestion(body.question.text, sid, ss0, earlier)
    IN  IF ~IsValidQuestion(body.question)
        THEN Step([IdleRequest EXCEPT !.pc = "rejected", !.sid = sid,
                                      !.before = ss0, !.earlier = earlier,
                                      !.body = types], ss0)
        ELSE Step([routed.rq EXCEPT !.body = types], routed.ss)

----------------------------------------------------------------------------
(* Actions *)

\* a store that hands every request the same session object
SessionOf_Shared(rq) == IF rq.sid = NoSid THEN NoSession ELSE sessionState["s1"]

SessionOf(rq) == IF rq.sid = NoSid THEN NoSession ELSE sessionState[rq.sid]

\* the step's request replaces slot r; its session goes back to the map (the
\* code mutates the session object in place; a request without session id
\* holds null and mutates nothing)
Commit(r, step) ==
    /\ req' = [req EXCEPT ![r] = step.rq]
    /\ sessionState' = IF step.rq.sid = NoSid THEN sessionState
                       ELSE [sessionState EXCEPT ![step.rq.sid] = step.ss]

\* the next page of the stored window stays within the numbers of the model
WithinBounds(question, ss) ==
    LET last == ss.lastDatabaseQuery
    IN  (detectPaginationDirection(Trim(question)) = "next" /\ last.present)
            => last.offset + Max(last.limit, DefaultLimit) <= MaxNum

\* a collaborator fails: counted against the failures of the run
Fault == faults < MaxFaults /\ faults' = faults + 1

NoFault == faults' = faults

\* POST /chat with a valid question: chatRoute calls routeQuestion
RouteQuestion(r, questions, sessionIds) ==
    /\ req[r].pc \in { "idle", "done", "failed", "rejected" }
    /\ served < MaxRequests
    /\ \E question \in questions, sessionId \in sessionIds \cup { NoSid } :
          LET ss0 == IF sessionId = NoSid THEN NoSession ELSE sessionState[sessionId]
          IN  /\ WithinBounds(question, ss0)
              /\ Commit(r, routeQuestion(question, sessionId, ss0,
                                          [pc |-> req[r].pc, sid |-> req[r].sid,
                                           direction |-> req[r].direction,
                                           before |-> req[r].before.lastDatabaseQuery,
                                           intent |-> req[r].intent]))
    /\ served' = served + 1
    /\ NoFault

\* the classifier's completion call returns raw, or throws
ClassifierReturns(r, labels) ==
    /\ req[r].pc = "classify"
    /\ \/ /\ \E raw \in labels :
                Commit(r, Dispatch([req[r] EXCEPT !.label = raw],
                                   SessionOf(req[r]),
                                   classifyFromModel(req[r].question, raw)))
          /\ NoFault
       \/ /\ Commit(r, Fail(req[r], SessionOf(req[r])))
          /\ Fault
    /\ UNCHANGED served

\* generateSql: the completion call returns rawSql and the gate runs, or the
\* call throws; runSqlChain catches both failures
GeneratorReturns(r, candidates) ==
    /\ req[r].pc = "generate"
    /\ LET rq == req[r]
           ss == SessionOf(rq)
       IN  \/ /\ \E rawSql \in candidates :
                    LET gated == gateSql(rawSql)
                        seen == [rq EXCEPT !.raw = rawSql]
                    IN  IF gated.ok
                        THEN Commit(r, executeSql([seen EXCEPT !.generated = "accepted"],
                                                  ss, gated.sql))
                        ELSE Commit(r, AfterSqlChain(
                                        [seen EXCEPT !.generated = "rejected"], ss,
                                        Result(<<>>, NoRows, <<GenerationFailed>>)))
              /\ NoFault
           \/ /\ Commit(r, AfterSqlChain([rq EXCEPT !.generated = "threw"], ss,
                              Result(<<>>, NoRows, <<GenerationFailed>>)))
              /\ Fault
    /\ UNCHANGED served

\* the primary query of runSqlChain or runSqlPage settles: rows, or a driver
\* error or the 3 s timer (Promise.race) rejects
PoolReturns(r, rowSets) ==
    /\ req[r].pc = "execute"
    /\ LET rq == req[r]
           ss == SessionOf(rq)
       IN  \/ /\ \E rows \in rowSets :
                    Commit(r, enrichRowsWithEmployees([rq EXCEPT !.rows = rows], ss))
              /\ NoFault
           \/ /\ Commit(r, ExecutionFailure(rq, ss))
              /\ Fault
    /\ UNCHANGED served

\* the employee lookup settles: it fills employeeMap, or it fails (the
\* failure is logged and skipped) and the map stays empty
EmployeeLookupReturns(r) ==
    /\ req[r].pc = "lookupEmployees"
    /\ LET rq == req[r]
           ss == SessionOf(rq)
       IN  \/ /\ Commit(r, ToUserLookup([rq EXCEPT !.rows.employeeNames = TRUE], ss))
              /\ NoFault
           \/ /\ Commit(r, ToUserLookup(rq, ss))
              /\ Fault
    /\ UNCHANGED served

\* the user lookup settles: it fills userMap, or it fails (the failure is
\* logged and skipped) and the map stays empty
UserLookupReturns(r) ==
    /\ req[r].pc = "lookupUsers"
    /\ LET rq == req[r]
           ss == SessionOf(rq)
       IN  \/ /\ Commit(r, ToFormat([rq EXCEPT !.rows.actorNames = TRUE], ss))
              /\ NoFault
           \/ /\ Commit(r, ToFormat(rq, ss))
              /\ Fault
    /\ UNCHANGED served

\* formatAnswer returns the answer text, or throws
FormatterReturns(r, answers) ==
    /\ req[r].pc = "format"
    /\ LET rq == req[r]
           ss == SessionOf(rq)
       IN  \/ /\ \E answer \in answers :
                    Commit(r, AfterSql(rq, ss, Result(rq.sql, rq.rows, answer)))
              /\ NoFault
           \/ /\ Commit(r, Fail(rq, ss))
              /\ Fault
    /\ UNCHANGED served

\* retrieveDocs: documents, nothing, or an error that is turned into nothing
RetrieverReturns(r) ==
    /\ req[r].pc = "retrieve"
    /\ \E context \in { "docs", "empty" } :
          Commit(r, Step([req[r] EXCEPT !.pc = "complete", !.context = context],
                         SessionOf(req[r])))
    /\ UNCHANGED <<served, faults>>

\* runRag's completion call returns the answer, or throws
CompletionReturns(r, answers) ==
    /\ req[r].pc = "complete"
    /\ LET rq == req[r]
           ss == SessionOf(rq)
       IN  \/ /\ \E answer \in answers :
                    Commit(r, Return(rq, ss,
                        [intent |-> rq.intent, source |-> "rag",
                         answer |-> IF answer # <<>>
                                    THEN <<RagExplanation>> \o answer
                                    ELSE <<RagExplanation>>,
                         sql |-> <<>>, rows |-> NoRows, hasSql |-> FALSE]))
              /\ NoFault
           \/ /\ Commit(r, Fail(rq, ss))
              /\ Fault
    /\ UNCHANGED served

\* POST /chat with any body
PostChat(r, bodies) ==
    /\ req[r].pc \in { "idle", "done", "failed", "rejected" }
    /\ served < MaxRequests
    /\ \E body \in bodies :
          LET sid == SessionArg(body.sessionId)
              ss0 == IF sid = NoSid THEN NoSession ELSE sessionState[sid]
          IN  /\ WithinBounds(body.question.text, ss0)
              /\ Commit(r, chatRoute(body, ss0,
                                      [pc |-> req[r].pc, sid |-> req[r].sid,
                                       direction |-> req[r].direction,
                                       before |-> req[r].before.lastDatabaseQuery,
                                       intent |-> req[r].intent]))
    /\ served' = served + 1
    /\ NoFault

\* the 3 s timer of executeSql rejects before the pool call settles: the
\* race is lost, the catch block answers, the pool call stays outstanding
TimerFires(r) ==
    /\ req[r].pc = "execute"
    /\ Commit(r, ExecutionFailure([req[r] EXCEPT !.late = "pending"], SessionOf(req[r])))
    /\ Fault
    /\ UNCHANGED served

\* a settlement that hands its rows on as if the race were still open
LateSettles_Resumes(rq, ss, rows) ==
    AfterSql([rq EXCEPT !.late = "settled"], ss, Result(rq.sql, rows, <<CompletionText>>))

\* the promise of queryDb settles after the race was decided: Promise.race
\* has settled already and nothing is run
LateSettles(rq, ss, rows) == Step([rq EXCEPT !.late = "settled"], ss)

\* the outstanding pool call of a request that timed out settles, with
\* rows or with an error
LateSettlement(r, rowSets) ==
    /\ req[r].late = "pending"
    /\ \E rows \in rowSets :
          Commit(r, LateSettles(req[r], SessionOf(req[r]), rows))
    /\ UNCHANGED <<served, faults>>

\* the completion texts of the chat specification
ChatAnswers == { <<CompletionText>> }

\* the classifier outputs of the chat specification: a label, and a sentence
\* that is no label
ChatLabels == { <<"GENERAL_CHAT">>, <<"I", "think", "RAG_QUERY">> }

Next ==
    \E r \in Slots :
        \/ RouteQuestion(r, Questions, ChatSessionIds)
        \/ ClassifierReturns(r, ChatLabels)
        \/ GeneratorReturns(r, ChatCandidates)
        \/ PoolReturns(r, ChatRowSets)
        \/ EmployeeLookupReturns(r)
        \/ UserLookupReturns(r)
        \/ FormatterReturns(r, ChatAnswers)
        \/ RetrieverReturns(r)
        \/ CompletionReturns(r, ChatAnswers)

Spec == Init /\ [][Next]_vars

----------------------------------------------------------------------------
(* The gate on its own: one kind of question, answered without a session,
   and every shape of candidate the completion call may return *)

GateQuestions == { <<"list", "employees">> }

GateStatements ==
    { <<"select", "employee_name", "from", "employees">>,
      <<"select", "employee_name", "from", "employees", "limit", "10">>,
      <<"select", "employee_name", "from", "employees", "limit", "10",
        "offset", "20">>,
      <<"select", "count(", "*", ")", "from", "employees">>,
      <<"select", "created_at", "from", "activity_logs">>,
      <<"select", "email", "from", "users">>,
      <<"select", "employee_name", "from", "employees", ",", "users">>,
      <<"select", "employee_name", "from", "hr", ".", "employees">>,
      <<"select", "employee_name", "from", "employees", "join", "users",
        "on", "id", "=", "id">>,
      <<"select", "name", "from", "allowances", "where", "name", "=",
        "'", "limit", "'">>,
      <<"update", "employees", "set", "is_active", "=", "0">>,
      <<"show", "tables">>,
      <<"drop", "table", "employees">> }

\* what follows the statement: nothing, semicolons, a second statement
GateTails ==
    { <<>>, <<";">>, <<";", ";", WS>>, <<";", "drop", "table", "employees">> }

\* how the completion wraps its text: not at all, in a code fence, in blanks
Wrapped(sql) ==
    { sql, <<"<fence sql>">> \o sql \o <<"<fence>">>, <<WS>> \o sql \o <<WS>> }

GateCandidates ==
    UNION { Wrapped(sql \o tail) : sql \in GateStatements, tail \in GateTails }
    \cup { <<>> }

GateNext ==
    \E r \in Slots :
        \/ RouteQuestion(r, GateQuestions, {})
        \/ GeneratorReturns(r, GateCandidates)
        \/ PoolReturns(r, ChatRowSets)
        \/ EmployeeLookupReturns(r)
        \/ UserLookupReturns(r)
        \/ FormatterReturns(r, ChatAnswers)

SpecGate == Init /\ [][GateNext]_vars

----------------------------------------------------------------------------
(* The classifier in the router: questions of every kind the rule tier tells
   apart, with and without a pagination word, and every kind of text the
   classifier's completion call may return *)

IntentQuestions ==
    { <<"hello">>, <<"hello", "list", "employees">>, <<"leave", "policy">>,
      <<"refund", "policy">>, <<"show", "policy">>, <<"next", "employees">> }

IntentCandidates == { <<"select", "employee_name", "from", "employees">> }

IntentNext ==
    \E r \in Slots :
        \/ RouteQuestion(r, IntentQuestions, ChatSessionIds)
        \/ ClassifierReturns(r, LabelOutputs)
        \/ GeneratorReturns(r, IntentCandidates)
        \/ PoolReturns(r, { NoRows })
        \/ FormatterReturns(r, ChatAnswers)
        \/ RetrieverReturns(r)
        \/ CompletionReturns(r, ChatAnswers)

SpecIntent == Init /\ [][IntentNext]_vars

----------------------------------------------------------------------------
(* A long conversation: two requests in flight at a time, in a session that
   has already talked *)

HistorySlots == { 1, 2 }

\* the session after a general-chat exchange about question
Talked(session, question) ==
    appendHistory(appendHistory(session, "user", question), "assistant",
                  <<GeneralExplanation>> \o buildGeneralChatAnswer(question))

\* the session after a "next" that found no earlier results
AskedNext(session) == appendHistory(session, "user", <<"next">>)

\* session s1 after seven requests: eleven turns
LongSession ==
    LET s0 == getSessionState(NoSession, "s1")
        s2 == AskedNext(Talked(Talked(s0, <<"hello">>), <<"hello">>))
        s4 == AskedNext(Talked(s2, <<"hello">>))
    IN  AskedNext(Talked(s4, <<"hello">>))

HistoryInit ==
    /\ sessionState = [s \in SessionIds |-> IF s = "s1" THEN LongSession ELSE NoSession]
    /\ req = [r \in HistorySlots |-> IdleRequest]
    /\ served = 0
    /\ faults = 0

HistoryQuestions == { <<"hello">>, <<"next">> }

HistoryNext ==
    \E r \in HistorySlots :
        \/ RouteQuestion(r, HistoryQuestions, ChatSessionIds)
        \/ ClassifierReturns(r, { <<"GENERAL_CHAT">> })

SpecHistory == HistoryInit /\ [][HistoryNext]_vars

----------------------------------------------------------------------------
(* The stored descriptor: database questions whose SQL comes with and without
   a LIMIT clause, and pages in between *)

DescriptorQuestions ==
    { <<WS, "list", "employees", WS>>, <<"next">>, <<"go", "back">> }

DescriptorCandidates ==
    { <<"select", "employee_name", "from", "employees">>,
      <<"select", "employee_name", "from", "employees", "limit", "10">>,
      <<"select", "employee_name", "from", "employees", "limit", "0">>,
      <<"select", "employee_name", "from", "employees", "limit", "10",
        "offset", "20">>,
      <<"select", "count(", "*", ")", "from", "employees">> }

DescriptorNext ==
    \E r \in Slots :
        \/ RouteQuestion(r, DescriptorQuestions, ChatSessionIds)
        \/ GeneratorReturns(r, DescriptorCandidates)
        \/ PoolReturns(r, { NoRows })
        \/ FormatterReturns(r, ChatAnswers)

SpecDescriptor == Init /\ [][DescriptorNext]_vars

----------------------------------------------------------------------------
(* The route: bodies with and without a string question, with and without a
   usable sessionId *)

RouteBodies ==
    [ question : { [type |-> "missing", text |-> <<>>],
                   [type |-> "number", text |-> <<>>],
                   [type |-> "string", text |-> <<>>],
                   [type |-> "string", text |-> <<"list", "employees">>],
                   [type |-> "string", text |-> <<"next">>] },
      sessionId : { [type |-> "missing", text |-> ""],
                    [type |-> "number", text |-> ""],
                    [type |-> "string", text |-> ""],
                    [type |-> "string", text |-> "s1"] } ]

RouteNext ==
    \E r \in Slots :
        \/ PostChat(r, RouteBodies)
        \/ GeneratorReturns(r, IntentCandidates)
        \/ PoolReturns(r, { NoRows })
        \/ FormatterReturns(r, ChatAnswers)

SpecRoute == Init /\ [][RouteNext]_vars

----------------------------------------------------------------------------
(* Two sessions: the requests of slot 1 carry session id s1, those of slot 2
   carry s2, and they interleave at their awaits *)

SessionsInit ==
    /\ sessionState = [s \in SessionIds |-> NoSession]
    /\ req = [r \in HistorySlots |-> IdleRequest]
    /\ served = 0
    /\ faults = 0

SessionsNext ==
    \E r \in HistorySlots :
        \/ RouteQuestion(r, { <<"list", "employees">>, <<"next">> },
                         { IF r = 1 THEN "s1" ELSE "s2" })
        \/ GeneratorReturns(r, IntentCandidates)
        \/ PoolReturns(r, { NoRows })
        \/ FormatterReturns(r, ChatAnswers)

SpecSessions == SessionsInit /\ [][SessionsNext]_vars

----------------------------------------------------------------------------
(* The timer: the primary query of a question or a page may lose the race
   against the 3 s timer and settle later *)

TimerNext ==
    \E r \in Slots :
        \/ RouteQuestion(r, { <<"list", "employees">>, <<"next">> }, ChatSessionIds)
        \/ GeneratorReturns(r, IntentCandidates)
        \/ PoolReturns(r, ChatRowSets)
        \/ TimerFires(r)
        \/ LateSettlement(r, ChatRowSets)
        \/ EmployeeLookupReturns(r)
        \/ UserLookupReturns(r)
        \/ FormatterReturns(r, ChatAnswers)

SpecTimer == Init /\ [][TimerNext]_vars

----------------------------------------------------------------------------
(* The pagination rewrite on its own: applyLimitOffset applied to a
   statement, a limit and an offset, and applied again to its result.  The
   request holds the arguments in sql, pageSize and newOffset, the first
   result in stmt and the second in raw *)

RewriteStatements ==
    { <<>>,
      <<"select", "employee_name", "from", "employees">>,
      <<"select", "employee_name", "from", "employees", "limit", "5">>,
      <<"select", "employee_name", "from", "employees", "limit", "5",
        "offset", "10">>,
      <<"select", "employee_name", "from", "(", "select", "*", "from",
        "employees", "limit", "5", ")", "limit", "10">>,
      <<"select", "count(", "*", ")", "from", "employees">> }

RewriteInit ==
    /\ sessionState = [s \in SessionIds |-> NoSession]
    /\ req \in [Slots ->
                  { [IdleRequest EXCEPT !.pc = "rewrite", !.sql = sql \o tail,
                                        !.pageSize = limit, !.newOffset = offset] :
                        sql \in RewriteStatements,
                        tail \in { <<>>, <<";">>, <<";", WS, ";">>, <<WS>> },
                        limit \in { 0, 10, 50 },
                        offset \in { -10, 0, 20 } }]
    /\ served = 0
    /\ faults = 0

ApplyLimitOffset(r) ==
    /\ req[r].pc = "rewrite"
    /\ req' = [req EXCEPT ![r].pc = "rewritten",
                          ![r].stmt = applyLimitOffset(req[r].sql, req[r].pageSize,
                                                       req[r].newOffset)]
    /\ UNCHANGED <<sessionState, served, faults>>

ApplyLimitOffsetAgain(r) ==
    /\ req[r].pc = "rewritten"
    /\ req' = [req EXCEPT ![r].pc = "rewrittenTwice",
                          ![r].raw = applyLimitOffset(req[r].stmt, req[r].pageSize,
                                                      req[r].newOffset)]
    /\ UNCHANGED <<sessionState, served, faults>>

RewriteNext ==
    \E r \in Slots : ApplyLimitOffset(r) \/ ApplyLimitOffsetAgain(r)

SpecRewrite == RewriteInit /\ [][RewriteNext]_vars

----------------------------------------------------------------------------
(* References: a question that names a person, and questions that refer to
   a person or to a topic without naming anyone *)

ReferenceQuestions ==
    { <<"who", "is", "Hamid", "Khan">>, <<"show", "his", "salary">>,
      <<"details", "about", "salary">>, <<"list", "employees">> }

ReferenceNext ==
    \E r \in Slots :
        \/ RouteQuestion(r, ReferenceQuestions, ChatSessionIds)
        \/ GeneratorReturns(r, IntentCandidates)
        \/ PoolReturns(r, { NoRows })
        \/ FormatterReturns(r, ChatAnswers)

SpecReference == Init /\ [][ReferenceNext]_vars

----------------------------------------------------------------------------
(* Properties.  Each is stated from the words of the claim, with its own
   reading of SQL text where the claim speaks of what a statement is. *)

\* the request has handed a statement to the pool and awaits its rows
InPool(rq) == rq.pc \in { "execute", "lookupEmployees", "lookupUsers" }

\* one statement that starts with SELECT: leading blanks aside the first
\* lexeme is select, and nothing but semicolons and blanks follows a semicolon
IsSingleSelect(stmt) ==
    LET t == TrimLeft(stmt)
    IN  /\ Len(t) > 0
        /\ t[1] = "select"
        /\ \A i \in 1..Len(stmt) :
              stmt[i] = ";" => \A j \in (i + 1)..Len(stmt) : stmt[j] \in { ";", WS }

\* C1: whatever path reaches the pool during a chat request (generated SQL,
\* rule-based template, page SQL, enrichment lookup), the statement handed
\* to the pool is a single statement starting with SELECT; an empty, a
\* non-SELECT or a stacked text never gets there.
C1_OnlySingleSelectReachesPool ==
    \A r \in Slots : InPool(req[r]) => IsSingleSelect(req[r].stmt)

\* a pagination request whose page SQL ran and whose enrichment lookup is
\* now at the pool
C1_Witness ==
    \E r \in Slots :
        /\ req[r].pc = "lookupUsers"
        /\ req[r].paginated
        /\ req[r].handed = 2

\* the checks of the gate, applied to a statement
PassesGate(stmt) == ensureSelectOnly(stmt).ok /\ ensureAllowedTables(stmt).ok

\* C2: every SQL text executed while handling a request (primary query,
\* page query, enrichment lookup) passes the gate's checks: SELECT only, no
\* forbidden content, allow-listed tables only.
C2_EveryExecutedSqlPassesGate ==
    \A r \in Slots : InPool(req[r]) => PassesGate(req[r].stmt)

\* index of the last lexeme of the dotted name that starts at i
RECURSIVE NameEnd(_, _)
NameEnd(sql, i) ==
    IF i + 2 <= Len(sql) /\ sql[i + 1] = "." /\ IsWord(sql[i + 2])
    THEN NameEnd(sql, i + 2) ELSE i

\* the tables of the comma-separated list whose first name starts at i, each
\* reduced to the final segment of its dotted name
RECURSIVE TableList(_, _)
TableList(sql, i) ==
    IF i > Len(sql) \/ ~IsWord(sql[i]) THEN {}
    ELSE LET e == NameEnd(sql, i)
         IN  { sql[e] } \cup (IF e + 2 <= Len(sql) /\ sql[e + 1] = ","
                              THEN TableList(sql, e + 2) ELSE {})

\* the tables a statement reads from after FROM or JOIN
TablesRead(sql) ==
    UNION { TableList(sql, i + 1) : i \in { j \in 1..Len(sql) : sql[j] \in {"from", "join"} } }

\* the candidate as the gate is said to look at it: fences and trailing
\* semicolons stripped
Candidate(rq) == StripTrailingSemicolons(stripMarkdown(rq.raw))

\* the completion call returned a candidate and the gate has judged it
Judged(rq) == rq.generated \in { "accepted", "rejected" }

\* C3: the gate throws if and only if the candidate, trailing semicolons
\* stripped, does not start with SELECT, or contains one of the forbidden
\* keywords or a semicolon, or references a table outside the allow-list;
\* a rejected candidate is never executed.
C3_GateRejectsExactlyTheUnsafe ==
    \A r \in Slots :
        Judged(req[r]) =>
            LET c == Candidate(req[r])
                unsafe == \/ ~(Len(c) > 0 /\ c[1] = "select")
                          \/ \E i \in 1..Len(c) : c[i] \in ForbiddenLexemes
                          \/ ~(TablesRead(c) \subseteq allowedTables)
            IN  /\ (req[r].generated = "rejected") <=> unsafe
                /\ (req[r].generated = "rejected") => req[r].handed = 0

\* C4: every table an accepted statement reads from after FROM or JOIN
\* (each table of a comma-separated list, a schema-qualified name reduced to
\* its final segment) is in the allow-list, and a SELECT-only statement that
\* names any other table is rejected.
C4_AcceptedTablesAreAllowed ==
    \A r \in Slots :
        Judged(req[r]) =>
            LET c == Candidate(req[r])
            IN  /\ (req[r].generated = "accepted")
                      => TablesRead(req[r].sql) \subseteq allowedTables
                /\ (ensureSelectOnly(c).ok /\ ~(TablesRead(c) \subseteq allowedTables))
                      => req[r].generated = "rejected"

\* a LIMIT clause: the keyword followed by its row count
HasLimitClause(sql) ==
    \E i \in 1..(Len(sql) - 1) : sql[i] = "limit" /\ IsNumber(sql[i + 1])

\* C5: the SQL generateSql returns is an aggregate count or contains a LIMIT
\* clause: a statement that is no count and has no LIMIT clause gets exactly
\* LIMIT 50 appended, any other is returned unchanged.
C5_GeneratedSqlIsBounded ==
    \A r \in Slots :
        req[r].generated = "accepted" =>
            LET c == Candidate(req[r])
                out == req[r].sql
            IN  /\ IsCount(out) \/ HasLimitClause(out)
                /\ out = IF ~IsCount(c) /\ ~HasLimitClause(c)
                         THEN c \o <<"limit", "50">> ELSE c

\* the session of the request as it is now
Now(rq) == sessionState[rq.sid]

\* C6: when SQL generation fails for a DATABASE_QUERY question (the gate
\* rejects the candidate, or the completion call throws), no SQL is
\* executed, the request still returns, with the rephrase apology and an
\* empty sql field, and the session's lastDatabaseQuery is as it was.
C6_GenerationFailureLeavesNoTrace ==
    \A r \in Slots :
        req[r].generated \in { "rejected", "threw" } =>
            /\ req[r].pc = "done"
            /\ req[r].handed = 0
            /\ req[r].payload.intent = "DATABASE_QUERY"
            /\ req[r].payload.answer = <<DbExplanation, GenerationFailed>>
            /\ req[r].payload.sql = <<>>
            /\ req[r].sid # NoSid =>
                  Now(req[r]).lastDatabaseQuery = req[r].before.lastDatabaseQuery

\* the gate rejected a candidate in a session that holds a descriptor
C6_Witness ==
    \E r \in Slots :
        /\ req[r].generated = "rejected"
        /\ req[r].sid # NoSid
        /\ req[r].before.lastDatabaseQuery.present

\* the request returned the fallback answer of a failed execution
ExecutionFailed_Returned(rq) ==
    /\ rq.pc = "done"
    /\ rq.payload.answer \in { <<DbExplanation, ExecutionFailed>>,
                               <<DbPagedExplanation, PageExecutionFailed>> }

\* C7: when SQL execution fails, for a new DATABASE_QUERY question or for a
\* page, the request returns the friendly fallback answer and the session's
\* lastDatabaseQuery (sql, originalQuestion, offset, limit) is as it was.
C7_ExecutionFailureKeepsDescriptor ==
    \A r \in Slots :
        (ExecutionFailed_Returned(req[r]) /\ req[r].sid # NoSid) =>
            Now(req[r]).lastDatabaseQuery = req[r].before.lastDatabaseQuery

\* a next/previous request that found no lastDatabaseQuery has returned
NoEarlierResults_Returned(rq) ==
    /\ rq.pc = "done"
    /\ rq.direction # NoDirection
    /\ ~rq.before.lastDatabaseQuery.present

\* what such a request answers
NoEarlierResults_Answer(rq) ==
    /\ rq.payload.intent = "GENERAL_CHAT"
    /\ rq.payload.source = "general"
    /\ rq.payload.answer = <<NoEarlierResults>>
    /\ rq.payload.sql = <<>>
    /\ rq.handed = 0

\* the last n entries of h
LastN(h, n) == IF Len(h) > n THEN SubSeq(h, Len(h) - n + 1, Len(h)) ELSE h

\* C8 as stated: a next/previous request in a session without
\* lastDatabaseQuery answers GENERAL_CHAT, source general, with the fixed
\* message, and changes neither the session's history nor its
\* lastDatabaseQuery.
C8_NoEarlierResultsMutatesNothing ==
    \A r \in Slots :
        NoEarlierResults_Returned(req[r]) =>
            /\ NoEarlierResults_Answer(req[r])
            /\ req[r].sid # NoSid =>
                  /\ Now(req[r]).history = req[r].before.history
                  /\ Now(req[r]).lastDatabaseQuery = req[r].before.lastDatabaseQuery

\* C8 amended: such a request answers GENERAL_CHAT, source general, with
\* the fixed message; lastDatabaseQuery stays absent, and the history
\* changes by the user's turn alone (kept to the last 12 entries): the
\* answer is not added to it.
C8_NoEarlierResultsLogsTheQuestionOnly ==
    \A r \in Slots :
        NoEarlierResults_Returned(req[r]) =>
            /\ NoEarlierResults_Answer(req[r])
            /\ req[r].sid # NoSid =>
                  /\ Now(req[r]).history =
                        LastN(Append(req[r].before.history,
                                     [role |-> "user", content |-> req[r].question]), 12)
                  /\ Now(req[r]).lastDatabaseQuery = req[r].before.lastDatabaseQuery
                  /\ ~Now(req[r]).lastDatabaseQuery.present

\* "go back" in a session that has talked before but holds no descriptor
C8_Witness ==
    \E r \in Slots :
        /\ NoEarlierResults_Returned(req[r])
        /\ req[r].direction = "previous"
        /\ req[r].sid # NoSid
        /\ Len(req[r].before.history) > 0

\* positions of the LIMIT clauses of a statement
LimitAt(sql) == { i \in 1..(Len(sql) - 1) : sql[i] = "limit" /\ IsNumber(sql[i + 1]) }

\* the window a statement asks for: <<limit, offset>>, <<>> without clause
WindowOf(sql) ==
    IF LimitAt(sql) = {} THEN <<>>
    ELSE LET i == CHOOSE k \in LimitAt(sql) : TRUE
         IN  IF i + 3 <= Len(sql) /\ sql[i + 2] = "offset"
             THEN <<parseInt(sql[i + 1]), parseInt(sql[i + 3])>>
             ELSE <<parseInt(sql[i + 1]), 0>>

\* the statement without its LIMIT clause
WithoutWindow(sql) ==
    IF LimitAt(sql) = {} THEN sql
    ELSE LET i == CHOOSE k \in LimitAt(sql) : TRUE
             e == IF i + 3 <= Len(sql) /\ sql[i + 2] = "offset" THEN i + 3 ELSE i + 1
         IN  SubSeq(sql, 1, i - 1) \o SubSeq(sql, e + 1, Len(sql))

\* the offset the claim gives for a request, from the window it found
ClaimedOffset(rq) ==
    LET w == rq.before.lastDatabaseQuery
    IN  IF rq.direction = "next" THEN w.offset + w.limit
        ELSE IF w.offset - w.limit > 0 THEN w.offset - w.limit ELSE 0

\* a page was fetched and formatted
PageReturned(rq) ==
    /\ rq.pc = "done"
    /\ rq.paginated
    /\ rq.payload.answer = <<DbPagedExplanation, CompletionText>>

NextThenPrevious(rq) ==
    /\ rq.pc = "done"
    /\ rq.paginated
    /\ rq.direction = "previous"
    /\ rq.earlier.pc = "done"
    /\ rq.earlier.sid = rq.sid
    /\ rq.earlier.direction = "next"
    /\ rq.earlier.before.present

C11_CountQueriesAreNotPaginated ==
    \A r \in Slots :
        LET w == req[r].before.lastDatabaseQuery
        IN  (req[r].paginated /\ IsCount(w.sql)) =>
                /\ req[r].pc = "execute" => req[r].stmt = w.sql
                /\ req[r].pc = "done" =>
                      /\ Now(req[r]).lastDatabaseQuery.sql = w.sql
                      /\ Now(req[r]).lastDatabaseQuery.offset = w.offset
                      /\ Now(req[r]).lastDatabaseQuery.limit = w.limit

\* the request went into the pagination branch
InPaginationBranch(rq) ==
    \/ rq.paginated
    \/ rq.pc = "done" /\ rq.payload.answer = <<NoEarlierResults>>

\* C12: whenever detectPaginationDirection returns a direction for the
\* question, the request is handled by the pagination branch and neither
\* tier of the classifier is invoked for it, with or without a stored
\* query; the classifier runs only when the direction is null.
C12_PaginationShortCircuitsClassifier ==
    \A r \in Slots :
        req[r].pc # "idle" =>
            LET d == detectPaginationDirection(req[r].question)
            IN  /\ d # NoDirection =>
                      /\ req[r].tier = "none"
                      /\ req[r].pc # "classify"
                      /\ req[r].label = <<>>
                      /\ InPaginationBranch(req[r])
                /\ req[r].tier # "none" => d = NoDirection

\* a page is fetched for a question the rule tier would have labelled
C12_Witness ==
    \E r \in Slots :
        /\ req[r].pc = "execute"
        /\ req[r].paginated
        /\ req[r].question = <<"next", "employees">>
        /\ req[r].tier = "none"

\* a greeting or small talk: the question opens with a greeting word, or
\* holds a word of thanks or farewell
IsGreeting(question) ==
    LET q == toLowerCase(question)
    IN  /\ Len(q) > 0
        /\ \/ q[1] \in { "hi", "hello", "hey", "salam", "asa" }
           \/ \E i \in 1..Len(q) : q[i] \in { "thanks", "bye" }

\* C13: for every question matching a greeting pattern classification
\* returns GENERAL_CHAT, whatever structured keywords or action verbs the
\* question holds besides.
C13_GreetingIsGeneralChat ==
    \A r \in Slots :
        (IsGreeting(req[r].question) /\ req[r].intent # "none"
            /\ ~req[r].paginated) => req[r].intent = "GENERAL_CHAT"

\* the label the rule tier is said to give: action verb + structured
\* keyword, action verb + document keyword without structured keyword,
\* structured without document keyword, document without structured keyword
ClaimedRuleLabel(question) ==
    LET phrases == Phrases(toLowerCase(question))
        action == \E ph \in phrases : ph \in SQL_ACTION_KEYWORDS
        structured == \E ph \in phrases : ph \in STRUCTURED_KEYWORDS
        document == \E ph \in phrases : ph \in RAG_KEYWORDS
    IN  CASE action /\ structured -> "DATABASE_QUERY"
          [] action /\ document /\ ~structured -> "RAG_QUERY"
          [] ~action /\ structured /\ ~document -> "DATABASE_QUERY"
          [] ~action /\ document /\ ~structured -> "RAG_QUERY"
          [] OTHER -> NoIntent

ClaimedLabel(raw) ==
    LET t == Trim(raw)
        upper == [ w \in { "database_query", "rag_query", "general_chat" } |->
                     CASE w = "database_query" -> "DATABASE_QUERY"
                       [] w = "rag_query" -> "RAG_QUERY"
                       [] OTHER -> "GENERAL_CHAT" ]
    IN  IF Len(t) # 1 THEN "OTHER"
        ELSE IF t[1] \in { "DATABASE_QUERY", "RAG_QUERY", "GENERAL_CHAT" } THEN t[1]
        ELSE IF t[1] \in DOMAIN upper THEN upper[t[1]]
        ELSE "OTHER"

\* the completion call of the classifier has returned
ModelTierReturned(rq) == rq.tier = "model" /\ rq.intent # "none"

\* C15: whatever text the completion call returns, classify returns one of
\* the three labels: the text trimmed and uppercased if that is a label,
\* otherwise DATABASE_QUERY if the question holds a structured-data keyword
\* and RAG_QUERY if not.
C15_ModelOutputIsNormalised ==
    \A r \in Slots :
        ModelTierReturned(req[r]) =>
            LET lab == ClaimedLabel(req[r].label)
                structured == \E ph \in Phrases(toLowerCase(req[r].question)) :
                                 ph \in STRUCTURED_KEYWORDS
            IN  /\ req[r].intent \in { "DATABASE_QUERY", "RAG_QUERY", "GENERAL_CHAT" }
                /\ req[r].intent = IF lab # "OTHER" THEN lab
                                   ELSE IF structured THEN "DATABASE_QUERY"
                                   ELSE "RAG_QUERY"

\* a sentence instead of a label, for a question with a structured keyword
C15_Witness ==
    \E r \in Slots :
        /\ ModelTierReturned(req[r])
        /\ req[r].label = <<"I", "think", "RAG_QUERY">>
        /\ req[r].question = <<"leave", "policy">>
        /\ req[r].intent = "DATABASE_QUERY"

\* a request with question q starts in session s in this step
Asks(s, q) ==
    /\ served' = served + 1
    /\ \E r \in DOMAIN req :
          req'[r] # req[r] /\ req'[r].sid = s /\ req'[r].question = q

\* what a step may do to the history of session s: nothing, or append one
\* or two turns at the end and keep the last 12 entries, in their order; a
\* request that starts in s appends the user's turn first
HistoryGrowsAtTheEnd(s) ==
    LET h == sessionState[s].history
        h2 == sessionState'[s].history
    IN  \E k \in 0..2 :
            /\ Len(h2) >= k
            /\ h2 = LastN(h \o SubSeq(h2, Len(h2) - k + 1, Len(h2)), 12)
            /\ \A q \in HistoryQuestions :
                  Asks(s, q) =>
                      /\ k >= 1
                      /\ h2[Len(h2) - k + 1] = [role |-> "user", content |-> q]

\* C16: in every reachable state, under any interleaving of requests, the
\* history of every session holds at most 12 entries, and every append
\* that would exceed 12 drops the oldest entries, so that the history is
\* the 12 most recently appended turns in their original order.
C16_HistoryKeepsLastTwelve ==
    /\ [](\A s \in SessionIds : Len(sessionState[s].history) <= 12)
    /\ [][\A s \in SessionIds : HistoryGrowsAtTheEnd(s)]_vars

\* two requests of the session in flight, whose user turns pushed the two
\* oldest turns out of a full history
C16_Witness ==
    /\ req[1].pc = "classify" /\ req[1].sid = "s1"
    /\ req[2].pc = "classify" /\ req[2].sid = "s1"
    /\ Len(sessionState["s1"].history) = 12
    /\ sessionState["s1"].history[1] = LongSession.history[3]

\* the last entry of the history of the request's session
LastTurn(rq) == Now(rq).history[Len(Now(rq).history)]

\* C17 as stated: every branch of routeQuestion that returns an answer for
\* a request with a session, pagination without a stored query included,
\* appends the answer as an assistant turn, so that after every completed
\* request the last history entry is the assistant's answer.
C17_EveryBranchLogsItsAnswer ==
    \A r \in Slots :
        (req[r].pc = "done" /\ req[r].sid # NoSid) =>
            /\ Len(Now(req[r]).history) > 0
            /\ LastTurn(req[r]) = [role |-> "assistant", content |-> req[r].payload.answer]

\* C17 amended: every branch that returns an answer for a request with a
\* session appends it as an assistant turn and the last history entry is
\* that answer, except pagination without a stored query: there the last
\* entry is the user's turn.
C17_EveryBranchButNoEarlierResultsLogsItsAnswer ==
    \A r \in Slots :
        (req[r].pc = "done" /\ req[r].sid # NoSid) =>
            /\ Len(Now(req[r]).history) > 0
            /\ LastTurn(req[r]) =
                  IF NoEarlierResults_Returned(req[r])
                  THEN [role |-> "user", content |-> req[r].question]
                  ELSE [role |-> "assistant", content |-> req[r].payload.answer]

\* a page whose execution failed has returned its fallback in a session
C17_Witness ==
    \E r \in Slots :
        /\ req[r].pc = "done"
        /\ req[r].sid # NoSid
        /\ req[r].paginated
        /\ req[r].payload.answer = <<DbPagedExplanation, PageExecutionFailed>>
        /\ LastTurn(req[r]).role = "assistant"

\* the fixed sentences an answer of a source may begin with
ExplanationsOf(source) ==
    IF source = "database" THEN { DbExplanation, DbPagedExplanation }
    ELSE IF source = "rag" THEN { RagExplanation }
    ELSE { GeneralExplanation }

\* C18 as stated: every answer routeQuestion returns begins with the fixed
\* explanatory sentence of its source (database, rag, general), in every
\* branch, fallbacks and both pagination branches included.
C18_EveryAnswerBeginsWithItsExplanation ==
    \A r \in Slots :
        req[r].pc = "done" =>
            /\ Len(req[r].payload.answer) > 0
            /\ req[r].payload.answer[1] \in ExplanationsOf(req[r].payload.source)

\* C18 amended: every answer begins with the fixed sentence of its source
\* (database answers of a page with the paginated form of the sentence),
\* fallbacks included, except the answer of pagination without a stored
\* query, which is the fixed no-earlier-results message alone.
C18_EveryAnswerButNoEarlierResultsBeginsWithItsExplanation ==
    \A r \in Slots :
        req[r].pc = "done" =>
            IF NoEarlierResults_Returned(req[r])
            THEN /\ req[r].payload.source = "general"
                 /\ req[r].payload.answer = <<NoEarlierResults>>
            ELSE /\ Len(req[r].payload.answer) > 0
                 /\ req[r].payload.answer[1] \in ExplanationsOf(req[r].payload.source)
                 /\ req[r].payload.source = "database" =>
                       req[r].payload.answer[1] =
                           IF req[r].paginated THEN DbPagedExplanation ELSE DbExplanation

\* the rephrase apology of a rejected candidate went out behind the sentence
C18_Witness ==
    \E r \in Slots :
        /\ req[r].pc = "done"
        /\ req[r].generated = "rejected"
        /\ req[r].payload.source = "database"
        /\ req[r].payload.answer = <<DbExplanation, GenerationFailed>>

\* a database question has been answered from the rows of its SQL
DatabaseQuestionSucceeded(rq) ==
    /\ rq.pc = "done"
    /\ ~rq.paginated
    /\ rq.intent = "DATABASE_QUERY"
    /\ rq.payload.answer = <<DbExplanation, CompletionText>>

\* the number of the first LIMIT clause of sql, 50 when it has none
ParsedLimit(sql) ==
    IF LimitAt(sql) = {} THEN 50
    ELSE LET i == CHOOSE k \in LimitAt(sql) : \A j \in LimitAt(sql) : k <= j
         IN  parseInt(sql[i + 1])

\* the descriptor a database question leaves, for a given limit
FreshDescriptor(rq, limit) ==
    [present |-> TRUE, sql |-> rq.sql, originalQuestion |-> rq.question,
     offset |-> 0, limit |-> limit]

\* the statement of a database question in the pool is the SQL it holds
ExecutesWhatItHolds(rq) ==
    (rq.pc = "execute" /\ ~rq.paginated) => rq.stmt = rq.sql

\* C19 as stated: after a DATABASE_QUERY question succeeds in a session,
\* lastDatabaseQuery is, as a whole, {sql: the executed SQL,
\* originalQuestion: the trimmed question, offset: 0, limit: the number
\* parsed from the SQL's LIMIT clause, or 50 when there is none}.
C19_SuccessStoresFreshDescriptor ==
    \A r \in Slots :
        /\ ExecutesWhatItHolds(req[r])
        /\ (DatabaseQuestionSucceeded(req[r]) /\ req[r].sid # NoSid) =>
              /\ Trim(req[r].question) = req[r].question
              /\ Now(req[r]).lastDatabaseQuery =
                    FreshDescriptor(req[r], ParsedLimit(req[r].sql))

\* C19 amended: as stated, with limit: the number parsed from the SQL's
\* LIMIT clause when that number is positive, and 50 when there is no
\* LIMIT clause or the number is 0.
C19_SuccessStoresFreshDescriptorWithPositiveLimit ==
    \A r \in Slots :
        /\ ExecutesWhatItHolds(req[r])
        /\ (DatabaseQuestionSucceeded(req[r]) /\ req[r].sid # NoSid) =>
              /\ Trim(req[r].question) = req[r].question
              /\ Now(req[r]).lastDatabaseQuery =
                    FreshDescriptor(req[r],
                        IF ParsedLimit(req[r].sql) > 0
                        THEN ParsedLimit(req[r].sql) ELSE 50)

\* a database question succeeded in a session whose descriptor stood at a
\* later page of another statement
C19_Witness ==
    \E r \in Slots :
        /\ DatabaseQuestionSucceeded(req[r])
        /\ req[r].sid # NoSid
        /\ req[r].before.lastDatabaseQuery.present
        /\ req[r].before.lastDatabaseQuery.offset = 50
        /\ req[r].sql = <<"select", "employee_name", "from", "employees", "limit", "10">>
        /\ Now(req[r]).lastDatabaseQuery.offset = 0
        /\ Now(req[r]).lastDatabaseQuery.limit = 10

\* the request was classified as a document or a chat question
DocumentOrChat(rq) ==
    /\ ~rq.paginated
    /\ rq.intent \in { "RAG_QUERY", "GENERAL_CHAT" }

\* C20: a request classified RAG_QUERY, and likewise one classified
\* GENERAL_CHAT, leaves the session's lastDatabaseQuery as it found it, at
\* every step and after it returned or failed, so that a next/previous
\* request that follows pages the most recent database query.
C20_DocumentAndChatKeepDescriptor ==
    \A r \in Slots :
        /\ (DocumentOrChat(req[r]) /\ req[r].sid # NoSid) =>
              Now(req[r]).lastDatabaseQuery = req[r].before.lastDatabaseQuery
        /\ (req[r].direction # NoDirection /\ req[r].sid # NoSid
               /\ req[r].earlier.pc \in { "done", "failed" }
               /\ req[r].earlier.sid = req[r].sid
               /\ req[r].earlier.direction = NoDirection
               /\ req[r].earlier.intent \in { "RAG_QUERY", "GENERAL_CHAT" }) =>
              req[r].before.lastDatabaseQuery = req[r].earlier.before

\* a document question was answered in a session that holds a descriptor,
\* and the page asked for next starts from that descriptor
C20_Witness ==
    \E r \in Slots :
        /\ req[r].paginated
        /\ req[r].pc = "execute"
        /\ req[r].sid # NoSid
        /\ req[r].earlier.pc = "done"
        /\ req[r].earlier.sid = req[r].sid
        /\ req[r].earlier.direction = NoDirection
        /\ req[r].earlier.intent = "RAG_QUERY"
        /\ req[r].earlier.before.present
        /\ req[r].question = <<"next">>

\* C21: every answer envelope routeQuestion returns carries a sql field or
\* a rows field only when its source is "database"; envelopes of source
\* "rag" or "general" carry neither.
C21_SqlAndRowsOnlyFromDatabase ==
    \A r \in Slots :
        req[r].pc = "done" =>
            /\ req[r].payload.source \in { "database", "rag", "general" }
            /\ req[r].payload.hasSql <=> req[r].payload.source = "database"
            /\ req[r].payload.source # "database" =>
                  /\ req[r].payload.sql = <<>>
                  /\ req[r].payload.rows = NoRows

\* a document question was answered from retrieved documents in a session
\* that holds a descriptor
C21_Witness ==
    \E r \in Slots :
        /\ req[r].pc = "done"
        /\ req[r].payload.source = "rag"
        /\ req[r].context = "docs"
        /\ req[r].sid # NoSid
        /\ Now(req[r]).lastDatabaseQuery.present
        /\ ~req[r].payload.hasSql

\* C22: a POST /chat request whose question is missing or not a string is
\* rejected with status 400 before the router is invoked: nothing of
\* routeQuestion has run for it, no session is created for its sessionId,
\* and the session's history and lastDatabaseQuery are as they were.
C22_InvalidQuestionIsRejectedUntouched ==
    \A r \in Slots :
        req[r].body.question \in { "missing", "number" } =>
            /\ req[r].pc = "rejected"
            /\ req[r].payload = NoPayload
            /\ req[r].handed = 0
            /\ req[r].tier = "none"
            /\ req[r].sid # NoSid => Now(req[r]) = req[r].before

\* a body without question and with the id of a session the map does not
\* hold was rejected, after a request that was served
C22_Witness ==
    \E r \in Slots :
        /\ req[r].pc = "rejected"
        /\ req[r].body.question = "missing"
        /\ req[r].sid = "s1"
        /\ ~Now(req[r]).present
        /\ req[r].earlier.pc = "done"

\* the turns a request has appended to the history of its session so far
OwnTurns(rq) ==
    (IF rq.question # <<>>
     THEN << [role |-> "user", content |-> rq.question] >> ELSE << >>)
    \o (IF rq.pc = "done" /\ ~NoEarlierResults_Returned(rq)
        THEN << [role |-> "assistant", content |-> rq.payload.answer] >> ELSE << >>)

\* the session of a request is the session it found, changed by the
\* request alone
OwnSessionOnly(rq) ==
    (rq.pc # "idle" /\ rq.sid # NoSid) =>
        /\ Now(rq).history = LastN(rq.before.history \o OwnTurns(rq), 12)
        /\ \/ Now(rq).lastDatabaseQuery = rq.before.lastDatabaseQuery
           \/ /\ rq.pc = "done"
              /\ Now(rq).lastDatabaseQuery.sql = rq.sql
              /\ Now(rq).lastDatabaseQuery.originalQuestion
                    \in { rq.question, rq.before.lastDatabaseQuery.originalQuestion }

\* a step of the request in slot r changes no session but its own, and no
\* other request
ChangesOwnSessionOnly(r) ==
    req'[r] # req[r] =>
        /\ \A B \in SessionIds \ { req'[r].sid } : sessionState'[B] = sessionState[B]
        /\ \A q \in HistorySlots \ { r } : req'[q] = req[q]

\* C23: requests for different session ids do not interact under any
\* interleaving at their awaits: a step of a request for session A changes
\* no other session B, and at every moment A's history and
\* lastDatabaseQuery are what A's request found, changed by that request
\* alone, as if the requests of B had not run.
C23_SessionsDoNotInteract ==
    /\ [](\A r \in HistorySlots : OwnSessionOnly(req[r]))
    /\ [][\A r \in HistorySlots : ChangesOwnSessionOnly(r)]_vars

\* both sessions hold a descriptor of their own, at different windows,
\* while the request for s2 is in flight behind a page of s1
C23_Witness ==
    /\ req[1].sid = "s1" /\ req[1].pc = "done" /\ req[1].paginated
    /\ req[2].sid = "s2" /\ req[2].pc = "format"
    /\ sessionState["s1"].lastDatabaseQuery.offset = 50
    /\ sessionState["s2"].present
    /\ ~sessionState["s2"].lastDatabaseQuery.present

\* the request lost the race against the timer of executeSql
TimedOut(rq) == rq.late # "none"

\* C24: when the 3 s timer fires before the database call completes, the
\* attempt is an execution failure: the request returns the fixed fallback
\* answer with no rows, nothing but the primary statement went to the pool
\* (no enrichment) and no formatted text is in the answer; when the call
\* settles later, the returned answer and the sessions stay as they are.
C24_TimeoutFailsTheAttemptForGood ==
    /\ [](\A r \in Slots :
            TimedOut(req[r]) =>
                /\ req[r].pc = "done"
                /\ req[r].payload.answer =
                      IF req[r].paginated
                      THEN <<DbPagedExplanation, PageExecutionFailed>>
                      ELSE <<DbExplanation, ExecutionFailed>>
                /\ req[r].payload.rows = NoRows
                /\ req[r].handed = 1)
    /\ [][\A r \in Slots :
            (req[r].late = "pending" /\ req'[r].late = "settled") =>
                /\ sessionState' = sessionState
                /\ req'[r].payload = req[r].payload
                /\ req'[r].pc = req[r].pc]_vars

\* the pool call of a page that timed out has settled after the page's
\* fallback answer went out
C24_Witness ==
    \E r \in Slots :
        /\ req[r].late = "settled"
        /\ req[r].paginated
        /\ req[r].pc = "done"
        /\ req[r].sid # NoSid

\* the statement carries the clause LIMIT limit OFFSET offset
HasWindowClause(sql, limit, offset) ==
    \E i \in 1..(Len(sql) - 3) :
        SubSeq(sql, i, i + 3) = <<"limit", NumTok(limit), "offset", NumTok(offset)>>

C26_DescriptorIsWellFormed ==
    \A s \in SessionIds :
        LET last == sessionState[s].lastDatabaseQuery
        IN  IF last.present
            THEN /\ last.sql # <<>>
                 /\ last.offset \in Nat
                 /\ last.limit \in Nat \ { 0 }
            ELSE last = NullQuery

\* the descriptor of a statement that ends in LIMIT 0
C26_Witness ==
    \E s \in SessionIds :
        /\ sessionState[s].lastDatabaseQuery.present
        /\ sessionState[s].lastDatabaseQuery.sql =
              <<"select", "employee_name", "from", "employees", "limit", "0">>
        /\ sessionState[s].lastDatabaseQuery.limit = 50

\* C27: after any sequence of database questions and pages in a session,
\* the stored descriptor agrees with the stored SQL text: the number of the
\* LIMIT clause of lastDatabaseQuery.sql is lastDatabaseQuery.limit and its
\* OFFSET (0 when the clause has none) is lastDatabaseQuery.offset.
C27_DescriptorAgreesWithSql ==
    \A s \in SessionIds :
        LET last == sessionState[s].lastDatabaseQuery
        IN  (last.present /\ LimitAt(last.sql) # {}) =>
                WindowOf(last.sql) = <<last.limit, last.offset>>

\* the question contains an action keyword
HasActionKeyword(question) ==
    \E ph \in Phrases(toLowerCase(question)) : ph \in SQL_ACTION_KEYWORDS

WithoutSessionId(rq) == rq.body.sessionId \in { "missing", "empty", "number" }

\* C29: a request without a session id (absent, empty or not a string) is
\* stateless: it has no session, none of its steps changes the session
\* map (no entry created, no history recorded, no lastDatabaseQuery
\* stored), and when it asks for the next or previous page it returns the
\* fixed no-earlier-results message, whatever was asked before it.
C29_NoSessionIdIsStateless ==
    /\ [](\A r \in Slots :
            WithoutSessionId(req[r]) =>
                /\ req[r].sid = NoSid
                /\ req[r].before = NoSession
                /\ (req[r].direction # NoDirection /\ req[r].pc # "rejected") =>
                      /\ req[r].pc = "done"
                      /\ NoEarlierResults_Answer(req[r]))
    /\ [][\A r \in Slots :
            (req'[r] # req[r] /\ WithoutSessionId(req'[r])) =>
                sessionState' = sessionState]_vars

\* "next" with an empty session id, right after a database question
\* without session id was answered from its rows
C29_Witness ==
    \E r \in Slots :
        /\ req[r].body.sessionId = "empty"
        /\ req[r].direction = "next"
        /\ req[r].pc = "done"
        /\ req[r].payload.answer = <<NoEarlierResults>>
        /\ req[r].earlier.pc = "done"
        /\ req[r].earlier.sid = NoSid
        /\ req[r].earlier.intent = "DATABASE_QUERY"
        /\ faults = 0

\* the request has entered runSqlChain
InSqlChain(rq) ==
    /\ rq.intent = "DATABASE_QUERY"
    /\ ~rq.paginated
    /\ rq.pc \notin { "idle", "classify", "rejected" }

\* the question names no person and has a context keyword or a pronoun
RefersToSomeone(question) ==
    /\ ~questionHasPersonName(question)
    /\ shouldUseEmployeeContext(question) \/ containsPronounReference(question)

\* C30: when the SQL chain resolves a reference for a question without
\* person name that has a context keyword or a pronoun, the name it appends
\* (for <name>) is the one recovered from the turns that precede the
\* question in the session history, never from the question itself; when
\* no earlier turn yields a name, or the question does not refer to
\* someone, the question stays as it is.
C30_NameComesFromEarlierTurns ==
    \A r \in Slots :
        InSqlChain(req[r]) =>
            LET q == req[r].question
                name == extractEmployeeNameFromHistory(req[r].before.history)
            IN  req[r].normalized =
                    IF RefersToSomeone(q) /\ name # <<>>
                    THEN q \o <<"for">> \o name ELSE q

====
